---- MODULE Spec2Model ----
(***************************************************************************)
(* Verification model of the Electrostat 2D scene: the field evaluators    *)
(* and marching squares of field.py, the camera of camera2d.py and the     *)
(* event handling, field-line generation and cache of scene2d.py.          *)
(*                                                                         *)
(* Numbers.  The program computes with Python floats.  The model computes  *)
(* with exact rationals <<n, d>> (d > 0, lowest terms), so that every      *)
(* comparison against EPSILON and every interpolation is decided exactly.  *)
(* Square roots are exact on perfect squares, which is what the inputs of  *)
(* the numeric specifications are chosen to produce.                       *)
(***************************************************************************)
EXTENDS Integers, Sequences, FiniteSets, TLC

VARIABLES
    ms_in,      \* marching squares: the scalar grid and levels under evaluation
    ms_out,     \* marching squares: the result of the last evaluation
    ms_pc,      \* marching squares: "input", "ms" or "contours"
    fe_in,      \* evaluators: the point and the sources under evaluation
    fe_out,     \* evaluators: the value returned by the last evaluation
    fe_pc,      \* evaluators: "input", then "E", "B" or "V" (which evaluator ran)
    ln_in,      \* field lines: the scene (sources, camera, workspace) under evaluation
    ln_out,     \* field lines: the traced polyline or the generated lines
    ln_pc,      \* field lines: "input", then "trace", "E" or "B", then "drawn"
    self,       \* scene: the Scene2D object (one field per attribute)
    run_pc,     \* scene: position of BaseScene.run ("events", "returned_True", "returned_False")
    hist,       \* scene: history of the run (events handled, regenerations)
    cam_in,     \* camera: the Camera2D object and the arguments of the call under evaluation
    cam_out,    \* camera: the Camera2D object after the call
    cam_pc,     \* camera: "input", then "zoom_at"
    app,        \* application: the locals of main() and the MainMenu and scene it drives
    app_pc      \* application: position in main()

msVars == <<ms_in, ms_out, ms_pc>>

feVars == <<fe_in, fe_out, fe_pc>>

lnVars == <<ln_in, ln_out, ln_pc>>

scVars == <<self, run_pc, hist>>

camVars == <<cam_in, cam_out, cam_pc>>

appVars == <<app, app_pc>>

vars ==
    <<ms_in, ms_out, ms_pc, fe_in, fe_out, fe_pc, ln_in, ln_out, ln_pc, self, run_pc, hist,
      cam_in, cam_out, cam_pc, app, app_pc>>

----------------------------------------------------------------------------
(* Exact rational arithmetic standing for Python's float arithmetic.       *)

RECURSIVE GCD(_, _)
GCD(a, b) == IF b = 0 THEN a ELSE GCD(b, a % b)

IAbs(a) == IF a < 0 THEN -a ELSE a

Norm(n, d) ==
    LET s == IF d < 0 THEN -1 ELSE 1
        g == GCD(IAbs(n), IAbs(d))
    IN  <<(s * n) \div g, (s * d) \div g>>

R(n) == <<n, 1>>

Q(n, d) == Norm(n, d)

Zero == <<0, 1>>

RNeg(a) == <<-a[1], a[2]>>

RAdd(a, b) ==
    LET g == GCD(a[2], b[2])
    IN  Norm(a[1] * (b[2] \div g) + b[1] * (a[2] \div g), (a[2] \div g) * b[2])

RSub(a, b) == RAdd(a, RNeg(b))

RMul(a, b) ==
    LET g1 == GCD(IAbs(a[1]), b[2])
        g2 == GCD(IAbs(b[1]), a[2])
    IN  IF a[1] = 0 \/ b[1] = 0 THEN Zero
        ELSE <<(a[1] \div g1) * (b[1] \div g2), (a[2] \div g2) * (b[2] \div g1)>>

RInv(a) == IF a[1] < 0 THEN <<-a[2], -a[1]>> ELSE <<a[2], a[1]>>

RDiv(a, b) == RMul(a, RInv(b))

RAbs(a) == <<IAbs(a[1]), a[2]>>

\* The sign of a/b - c/d (b, d > 0), by continued fractions: no product is formed.
RECURSIVE Cmp(_, _, _, _)
Cmp(a, b, c, d) ==
    LET q1 == a \div b
        q2 == c \div d
        r1 == a % b
        r2 == c % d
    IN  IF q1 # q2 THEN (IF q1 < q2 THEN -1 ELSE 1)
        ELSE IF r1 = 0 /\ r2 = 0 THEN 0
        ELSE IF r1 = 0 THEN -1
        ELSE IF r2 = 0 THEN 1
        ELSE Cmp(d, r2, b, r1)

RLt(a, b) == Cmp(a[1], a[2], b[1], b[2]) < 0

RLe(a, b) == Cmp(a[1], a[2], b[1], b[2]) <= 0

RGt(a, b) == RLt(b, a)

RGe(a, b) == RLe(b, a)

RMax(a, b) == IF RLt(a, b) THEN b ELSE a

RMin(a, b) == IF RLt(b, a) THEN b ELSE a

RECURSIVE ISqrtIter(_, _)
ISqrtIter(n, x) ==
    LET y == (x + n \div x) \div 2
    IN  IF y >= x THEN x ELSE ISqrtIter(n, y)

ISqrt(n) == IF n < 2 THEN n ELSE ISqrtIter(n, n \div 2 + 1)

----------------------------------------------------------------------------
(* field.py: constants                                                     *)

EPSILON == <<1, 1000000>>

K_E == 1

MU_OVER_4PI == 1

SEGMENTS_PER_LINE == 20

\* math.sqrt: exact on a rational whose numerator and denominator are perfect
\* squares; otherwise the floor of the root in units of 1/d.
RSqrt(a) ==
    LET sn == ISqrt(a[1])
        sd == ISqrt(a[2])
    IN  IF sn * sn = a[1] /\ sd * sd = a[2] THEN <<sn, sd>>
        ELSE Q(ISqrt(a[1] * a[2]), a[2])

\* x*x + y*y, computed as (c/D)^2 * ((X/c)^2 + (Y/c)^2) where x = X/D, y = Y/D and
\* c = gcd(X, Y): the same value, with the common factor taken out before squaring.
SumSq(x, y) ==
    LET g == GCD(x[2], y[2])
        D == (x[2] \div g) * y[2]
        X == IAbs(x[1]) * (D \div x[2])
        Y == IAbs(y[1]) * (D \div y[2])
        c == GCD(X, Y)
    IN  IF c = 0 THEN Zero
        ELSE RMul(RMul(Q(c, D), Q(c, D)),
                  R((X \div c) * (X \div c) + (Y \div c) * (Y \div c)))

\* math.hypot(x, y)
hypot(x, y) ==
    LET g == GCD(x[2], y[2])
        D == (x[2] \div g) * y[2]
        X == IAbs(x[1]) * (D \div x[2])
        Y == IAbs(y[1]) * (D \div y[2])
        c == GCD(X, Y)
    IN  IF c = 0 THEN Zero
        ELSE RMul(Q(c, D), RSqrt(R((X \div c) * (X \div c) + (Y \div c) * (Y \div c))))

ZeroVec == <<Zero, Zero>>

VAdd(u, v) == <<RAdd(u[1], v[1]), RAdd(u[2], v[2])>>

normalize(vec) ==
    LET mag == hypot(vec[1], vec[2])
    IN  IF RLt(mag, EPSILON) THEN ZeroVec
        ELSE <<RDiv(vec[1], mag), RDiv(vec[2], mag)>>

compute_field_magnitude(vec) == hypot(vec[1], vec[2])

\* max(4, SEGMENTS_PER_LINE)
Segments == IF SEGMENTS_PER_LINE > 4 THEN SEGMENTS_PER_LINE ELSE 4

\* A Coulomb term that divides by the distance once: k q / r along the displacement.
CoulombTerm_unnormalised(px, py, sx, sy, q) ==
    LET dx == RSub(px, sx)
        dy == RSub(py, sy)
        r_sq == SumSq(dx, dy)
    IN  IF RLt(r_sq, EPSILON) THEN ZeroVec
        ELSE <<RDiv(RMul(RMul(R(K_E), q), dx), r_sq), RDiv(RMul(RMul(R(K_E), q), dy), r_sq)>>

\* The Coulomb term of a source of magnitude q at (sx, sy), seen from (px, py);
\* nothing when the squared distance is below EPSILON.
CoulombTerm(px, py, sx, sy, q) ==
    LET dx == RSub(px, sx)
        dy == RSub(py, sy)
        r_sq == SumSq(dx, dy)
    IN  IF RLt(r_sq, EPSILON) THEN ZeroVec
        ELSE LET r_mag == RSqrt(r_sq)
                 intensity == RDiv(RMul(R(K_E), q), r_sq)
             IN  <<RDiv(RMul(intensity, dx), r_mag), RDiv(RMul(intensity, dy), r_mag)>>

\* The midpoint of sub-segment i (from 0) of a segment source.
SubMid(a1, d_line, i) == RAdd(a1, RMul(Q(2 * i + 1, 2), d_line))

\* An accumulation step that overwrites the running sum.
AddTerm_overwrite(acc, term) == term

\* field_x += ..., field_y += ...: one accepted term added to the running sum.
AddTerm(acc, term) == VAdd(acc, term)

\* The sub-segment loop of a segment source: the running sum is a value (a
\* pair) before the next sub-segment is visited.
RECURSIVE LineSubTermsE(_, _, _, _, _, _, _, _)
LineSubTermsE(px, py, line, dx_line, dy_line, dq, i, acc) ==
    IF i >= Segments THEN acc
    ELSE LET field == AddTerm(acc, CoulombTerm(px, py, SubMid(line.x1, dx_line, i),
                                               SubMid(line.y1, dy_line, i), dq))
         IN  IF Len(field) = 2
             THEN LineSubTermsE(px, py, line, dx_line, dy_line, dq, i + 1, field)
             ELSE field

\* The length test that skips a degenerate segment source.
SegmentTooShort(length) == RLt(length, EPSILON)

\* A line charge that acts as a point charge of its density at its first end.
LineChargeE_as_point(px, py, line, acc) ==
    VAdd(acc, CoulombTerm(px, py, line.x1, line.y1, line.linear_density))

\* One line charge added to the running sum of E (the body of "for line in line_charges").
LineChargeE(px, py, line, acc) ==
    LET length == hypot(RSub(line.x2, line.x1), RSub(line.y2, line.y1))
    IN  IF SegmentTooShort(length) THEN acc
        ELSE LET dx_line == RDiv(RSub(line.x2, line.x1), R(Segments))
                 dy_line == RDiv(RSub(line.y2, line.y1), R(Segments))
                 dq == RDiv(RMul(line.linear_density, length), R(Segments))
             IN  LineSubTermsE(px, py, line, dx_line, dy_line, dq, 0, acc)

RECURSIVE SumChargesE(_, _, _, _, _)
SumChargesE(px, py, charges, k, acc) ==
    IF k > Len(charges) THEN acc
    ELSE SumChargesE(px, py, charges, k + 1,
             AddTerm(acc, CoulombTerm(px, py, charges[k].x, charges[k].y, charges[k].q)))

RECURSIVE SumLinesE(_, _, _, _, _)
SumLinesE(px, py, line_charges, k, acc) ==
    IF k > Len(line_charges) THEN acc
    ELSE SumLinesE(px, py, line_charges, k + 1, LineChargeE(px, py, line_charges[k], acc))

\* An evaluator of E whose locals field_x and field_y outlive the call.
compute_E_at_point_static(point, charges, line_charges) ==
    SumLinesE(point[1], point[2], line_charges, 1,
              SumChargesE(point[1], point[2], charges, 1, fe_out.field))

compute_E_at_point(point, charges, line_charges) ==
    SumLinesE(point[1], point[2], line_charges, 1,
              SumChargesE(point[1], point[2], charges, 1, ZeroVec))

\* One sub-segment's term of the planar Biot-Savart sum.
BiotTerm(px, py, sx, sy, current, dl_mag) ==
    LET dx == RSub(px, sx)
        dy == RSub(py, sy)
        r_sq == SumSq(dx, dy)
    IN  IF RLt(r_sq, EPSILON) THEN ZeroVec
        ELSE LET tangent == normalize(<<RNeg(dy), dx>>)
                 strength == RDiv(RMul(RMul(R(MU_OVER_4PI), current), dl_mag), r_sq)
             IN  <<RMul(strength, tangent[1]), RMul(strength, tangent[2])>>

RECURSIVE WireSubTermsB(_, _, _, _, _, _, _, _)
WireSubTermsB(px, py, wire, dx_line, dy_line, dl_mag, i, acc) ==
    IF i >= Segments THEN acc
    ELSE LET field == AddTerm(acc, BiotTerm(px, py, SubMid(wire.x1, dx_line, i),
                                            SubMid(wire.y1, dy_line, i), wire.current, dl_mag))
         IN  IF Len(field) = 2
             THEN WireSubTermsB(px, py, wire, dx_line, dy_line, dl_mag, i + 1, field)
             ELSE field

\* One wire added to the running sum of B (the body of "for wire in currents").
WireB(px, py, wire, acc) ==
    LET length == hypot(RSub(wire.x2, wire.x1), RSub(wire.y2, wire.y1))
    IN  IF SegmentTooShort(length) THEN acc
        ELSE LET dx_line == RDiv(RSub(wire.x2, wire.x1), R(Segments))
                 dy_line == RDiv(RSub(wire.y2, wire.y1), R(Segments))
                 dl_mag == hypot(dx_line, dy_line)
             IN  IF RLt(dl_mag, EPSILON) THEN acc
                 ELSE WireSubTermsB(px, py, wire, dx_line, dy_line, dl_mag, 0, acc)

RECURSIVE SumWiresB(_, _, _, _, _)
SumWiresB(px, py, currents, k, acc) ==
    IF k > Len(currents) THEN acc
    ELSE SumWiresB(px, py, currents, k + 1, WireB(px, py, currents[k], acc))

compute_B_at_point(point, currents) == SumWiresB(point[1], point[2], currents, 1, ZeroVec)

\* The potential term of a source of magnitude q at (sx, sy); nothing when the
\* distance is below EPSILON.
PotentialTerm(px, py, sx, sy, q) ==
    LET r == hypot(RSub(px, sx), RSub(py, sy))
    IN  IF RLt(r, EPSILON) THEN Zero ELSE RDiv(RMul(R(K_E), q), r)

RECURSIVE LineSubTermsV(_, _, _, _, _, _, _, _)
LineSubTermsV(px, py, line, dx_line, dy_line, dq, i, acc) ==
    IF i >= Segments THEN acc
    ELSE LET potential == RAdd(acc, PotentialTerm(px, py, SubMid(line.x1, dx_line, i),
                                                  SubMid(line.y1, dy_line, i), dq))
         IN  IF Len(potential) = 2
             THEN LineSubTermsV(px, py, line, dx_line, dy_line, dq, i + 1, potential)
             ELSE potential

\* One line charge added to the running sum of the potential.
LineChargeV(px, py, line, acc) ==
    LET length == hypot(RSub(line.x2, line.x1), RSub(line.y2, line.y1))
    IN  IF SegmentTooShort(length) THEN acc
        ELSE LET dx_line == RDiv(RSub(line.x2, line.x1), R(Segments))
                 dy_line == RDiv(RSub(line.y2, line.y1), R(Segments))
                 dq == RDiv(RMul(line.linear_density, length), R(Segments))
             IN  LineSubTermsV(px, py, line, dx_line, dy_line, dq, 0, acc)

RECURSIVE SumChargesV(_, _, _, _, _)
SumChargesV(px, py, charges, k, acc) ==
    IF k > Len(charges) THEN acc
    ELSE SumChargesV(px, py, charges, k + 1,
             RAdd(acc, PotentialTerm(px, py, charges[k].x, charges[k].y, charges[k].q)))

RECURSIVE SumLinesV(_, _, _, _, _)
SumLinesV(px, py, line_charges, k, acc) ==
    IF k > Len(line_charges) THEN acc
    ELSE SumLinesV(px, py, line_charges, k + 1, LineChargeV(px, py, line_charges[k], acc))

compute_potential_at_point(point, charges, line_charges) ==
    SumLinesV(point[1], point[2], line_charges, 1,
              SumChargesV(point[1], point[2], charges, 1, Zero))

----------------------------------------------------------------------------
(* field.py: marching_squares.  A point is <<x, y>>, a segment is a        *)
(* two-element sequence of points, sequences are indexed from 1.           *)

interpolate(p1, p2, v1, v2, level) ==
    IF RLt(RAbs(RSub(level, v1)), EPSILON) THEN p1
    ELSE IF RLt(RAbs(RSub(level, v2)), EPSILON) THEN p2
    ELSE IF RLt(RAbs(RSub(v1, v2)), EPSILON) THEN p1
    ELSE LET t == RDiv(RSub(level, v1), RSub(v2, v1))
         IN  <<RAdd(p1[1], RMul(t, RSub(p2[1], p1[1]))),
               RAdd(p1[2], RMul(t, RSub(p2[2], p1[2])))>>

\* One corner's bit of the 4-bit classification: set when the value exceeds the level.
CornerAbove(v, level) == RGt(v, level)

CellIdx(v1, v2, v3, v4, level) ==
      (IF CornerAbove(v1, level) THEN 1 ELSE 0)
    + (IF CornerAbove(v2, level) THEN 2 ELSE 0)
    + (IF CornerAbove(v3, level) THEN 4 ELSE 0)
    + (IF CornerAbove(v4, level) THEN 8 ELSE 0)

\* The edge points of one cell, appended in the order of the six tests.
EdgePoints(idx, p1, p2, p3, p4, v1, v2, v3, v4, level) ==
       (IF idx \in {1, 5, 13, 9} THEN <<interpolate(p1, p2, v1, v2, level)>> ELSE <<>>)
    \o (IF idx \in {3, 7, 11, 10} THEN <<interpolate(p2, p3, v2, v3, level)>> ELSE <<>>)
    \o (IF idx \in {2, 6, 7, 10, 14} THEN <<interpolate(p2, p3, v2, v3, level)>> ELSE <<>>)
    \o (IF idx \in {4, 6, 12, 14} THEN <<interpolate(p3, p4, v3, v4, level)>> ELSE <<>>)
    \o (IF idx \in {8, 9, 12, 13} THEN <<interpolate(p4, p1, v4, v1, level)>> ELSE <<>>)
    \o (IF idx \in {1, 3, 5, 7, 9, 11} THEN <<interpolate(p4, p1, v4, v1, level)>> ELSE <<>>)

\* A pairing that chains the points: one segment for every two neighbours.
PairPoints_chained(edge_points) ==
    IF Len(edge_points) >= 2
    THEN [k \in 1..(Len(edge_points) - 1) |-> <<edge_points[k], edge_points[k + 1]>>]
    ELSE <<>>

\* for k in range(0, len(edge_points) - 1, 2): [edge_points[k], edge_points[k + 1]]
PairPoints(edge_points) ==
    IF Len(edge_points) >= 2
    THEN [k \in 1..(Len(edge_points) \div 2) |->
              <<edge_points[2 * k - 1], edge_points[2 * k]>>]
    ELSE <<>>

\* The segments of cell (i, j), 1-based, for one level.
CellSegments(xs, ys, values, level, i, j) ==
    LET v1 == values[j][i]
        v2 == values[j][i + 1]
        v3 == values[j + 1][i + 1]
        v4 == values[j + 1][i]
        idx == CellIdx(v1, v2, v3, v4, level)
        p1 == <<xs[i], ys[j]>>
        p2 == <<xs[i + 1], ys[j]>>
        p3 == <<xs[i + 1], ys[j + 1]>>
        p4 == <<xs[i], ys[j + 1]>>
    IN  IF idx = 0 \/ idx = 15 THEN <<>>
        ELSE PairPoints(EdgePoints(idx, p1, p2, p3, p4, v1, v2, v3, v4, level))

\* Cells are visited row by row: cell number c of a row-major walk, from 1.
RECURSIVE LevelSegmentsFrom(_, _, _, _, _)
LevelSegmentsFrom(xs, ys, values, level, c) ==
    LET nx == Len(xs)
        ny == Len(ys)
        j == ((c - 1) \div (nx - 1)) + 1
        i == ((c - 1) % (nx - 1)) + 1
    IN  IF c > (nx - 1) * (ny - 1) THEN <<>>
        ELSE CellSegments(xs, ys, values, level, i, j)
             \o LevelSegmentsFrom(xs, ys, values, level, c + 1)

LevelSegments(xs, ys, values, level) == LevelSegmentsFrom(xs, ys, values, level, 1)

RECURSIVE ContoursFrom(_, _, _, _, _)
ContoursFrom(xs, ys, values, levels, l) ==
    IF l > Len(levels) THEN <<>>
    ELSE LevelSegments(xs, ys, values, levels[l])
         \o ContoursFrom(xs, ys, values, levels, l + 1)

marching_squares(xs, ys, values, levels) ==
    IF Len(xs) < 2 \/ Len(ys) < 2 THEN <<>>
    ELSE ContoursFrom(xs, ys, values, levels, 1)

----------------------------------------------------------------------------
(* scene2d.py: _generate_potential_contours, from the sampled values on:   *)
(* the flat-field test, the level selection and the call of marching       *)
(* squares.  The result records the levels that were selected.             *)

NumLevels == 7

RECURSIVE SeqMin(_, _)
SeqMin(s, k) == IF k = Len(s) THEN s[k] ELSE RMin(s[k], SeqMin(s, k + 1))

RECURSIVE SeqMax(_, _)
SeqMax(s, k) == IF k = Len(s) THEN s[k] ELSE RMax(s[k], SeqMax(s, k + 1))

RECURSIVE FlattenRows(_, _)
FlattenRows(values, j) ==
    IF j > Len(values) THEN <<>> ELSE values[j] \o FlattenRows(values, j + 1)

\* A flat-field test that accepts exact equality only.
isclose_exact(a, b) == a = b

\* math.isclose(a, b, rel_tol=1e-6, abs_tol=1e-6):
\* abs(a - b) <= max(rel_tol * max(abs(a), abs(b)), abs_tol), the relative test
\* written as a quotient so that no large product is formed.
isclose(a, b) ==
    LET diff == RAbs(RSub(a, b))
        big == RMax(RAbs(a), RAbs(b))
    IN  \/ RLe(diff, <<1, 1000000>>)
        \/ (big # Zero /\ RLe(RDiv(diff, big), <<1, 1000000>>))

\* Levels spread from the minimum to the maximum, both included.
SelectLevels_with_extremes(min_v, max_v) ==
    [i \in 1..NumLevels |->
        RAdd(min_v, RDiv(RMul(R(i - 1), RSub(max_v, min_v)), R(NumLevels - 1)))]

SelectLevels(min_v, max_v) ==
    [i \in 1..NumLevels |->
        RAdd(min_v, RDiv(RMul(R(i), RSub(max_v, min_v)), R(NumLevels + 1)))]

PotentialContoursFromValues(xs, ys, values) ==
    LET flat_values == FlattenRows(values, 1)
    IN  IF flat_values = <<>> THEN [levels |-> <<>>, contours |-> <<>>]
        ELSE LET min_v == SeqMin(flat_values, 1)
                 max_v == SeqMax(flat_values, 1)
             IN  IF isclose(min_v, max_v) THEN [levels |-> <<>>, contours |-> <<>>]
                 ELSE LET levels == SelectLevels(min_v, max_v)
                      IN  [levels |-> levels,
                           contours |-> marching_squares(xs, ys, values, levels)]

----------------------------------------------------------------------------
(* Specification SpecMS: marching squares and the level selection applied  *)
(* to scalar grids drawn from bounded families.                            *)

MaxGridCols == 3
MaxGridRows == 2

UnitCoords(n) == [k \in 1..n |-> R(k - 1)]

WideCoords(n) == [k \in 1..n |-> Q(3 * (k - 1), 2)]

CoordChoices(n) == {UnitCoords(n), WideCoords(n)}

\* value(x, y) = x
XGridValues(xs, ys) == [j \in 1..Len(ys) |-> xs]

FlatValues(xs, ys, c) == [j \in 1..Len(ys) |-> [i \in 1..Len(xs) |-> c]]

QuarterLevels(top) == {Q(k, 4) : k \in 0..(4 * top)}

XGridInputs ==
    { [xs |-> xs, ys |-> ys, values |-> XGridValues(xs, ys), levels |-> <<l>>] :
        xs \in UNION { CoordChoices(n) : n \in 2..MaxGridCols },
        ys \in UNION { CoordChoices(m) : m \in 2..MaxGridRows },
        l \in QuarterLevels(MaxGridCols) }

FlatConstants == {R(0), R(1), R(-1), R(2000000)}

FlatLevelChoices == {<<>>, <<R(0)>>, <<R(1)>>, <<Q(1, 2), R(1), R(2)>>, <<R(-1), R(2000000)>>}

FlatInputs ==
    { [xs |-> xs, ys |-> ys, values |-> FlatValues(xs, ys, c), levels |-> ls] :
        xs \in UNION { CoordChoices(n) : n \in 1..MaxGridCols },
        ys \in UNION { CoordChoices(m) : m \in 1..MaxGridRows },
        c \in FlatConstants,
        ls \in FlatLevelChoices }

\* Grids whose values differ by less than the tolerance of the flat-field test.
NearFlatPairs ==
    { <<R(1), Q(10000001, 10000000)>>, <<R(2000000), R(2000001)>>,
      <<R(0), Q(1, 2000000)>>, <<R(1), Q(500001, 500000)>> }

NearFlatRows == { <<<<p[1], p[2]>>, <<p[2], p[1]>>>> : p \in NearFlatPairs }

NearFlatInputs ==
    { [xs |-> UnitCoords(2), ys |-> UnitCoords(2), values |-> v, levels |-> <<R(1)>>] :
        v \in NearFlatRows }

CornerValues == {R(0), R(1), R(2)}

GeneralLevelChoices == {<<Q(1, 2)>>, <<R(1)>>, <<Q(1, 2), Q(3, 2)>>}

GeneralInputs ==
    { [xs |-> xs, ys |-> UnitCoords(2), values |-> v, levels |-> ls] :
        xs \in {UnitCoords(2), WideCoords(2)},
        v \in [1..2 -> [1..2 -> CornerValues]],
        ls \in GeneralLevelChoices }

MSInputs == XGridInputs \cup FlatInputs \cup NearFlatInputs \cup GeneralInputs

NoResult == [levels |-> <<>>, contours |-> <<>>]

SCIdle ==
    /\ self = <<>>
    /\ run_pc = "idle"
    /\ hist = <<>>

CAMIdle ==
    /\ cam_in = <<>>
    /\ cam_out = <<>>
    /\ cam_pc = "idle"

APPIdle ==
    /\ app = <<>>
    /\ app_pc = "idle"

LNIdle ==
    /\ ln_in = <<>>
    /\ ln_out = <<>>
    /\ ln_pc = "idle"

FEIdle ==
    /\ fe_in = [point |-> ZeroVec, charges |-> <<>>, line_charges |-> <<>>, currents |-> <<>>]
    /\ fe_out = ZeroVec
    /\ fe_pc = "idle"

MSIdle ==
    /\ ms_in = [xs |-> <<>>, ys |-> <<>>, values |-> <<>>, levels |-> <<>>]
    /\ ms_out = NoResult
    /\ ms_pc = "idle"

InitMS ==
    /\ ms_in \in MSInputs
    /\ ms_out = NoResult
    /\ ms_pc = "input"
    /\ FEIdle
    /\ LNIdle
    /\ SCIdle
    /\ CAMIdle
    /\ APPIdle

RunMarchingSquares ==
    /\ ms_pc = "input"
    /\ ms_out' = [levels |-> ms_in.levels,
                  contours |-> marching_squares(ms_in.xs, ms_in.ys, ms_in.values, ms_in.levels)]
    /\ ms_pc' = "ms"
    /\ UNCHANGED <<ms_in, feVars, lnVars, scVars, camVars, appVars>>

RunPotentialContours ==
    /\ ms_pc = "input"
    /\ ms_out' = PotentialContoursFromValues(ms_in.xs, ms_in.ys, ms_in.values)
    /\ ms_pc' = "contours"
    /\ UNCHANGED <<ms_in, feVars, lnVars, scVars, camVars, appVars>>

NextMS == RunMarchingSquares \/ RunPotentialContours

SpecMS == InitMS /\ [][NextMS]_vars

----------------------------------------------------------------------------
(* Properties of marching squares and the level selection (SpecMS).        *)

\* The grid of ms_in samples value(x, y) = x.
IsXGrid(in) ==
    /\ Len(in.xs) >= 2 /\ Len(in.ys) >= 2
    /\ \A j \in 1..Len(in.ys) : \A i \in 1..Len(in.xs) : in.values[j][i] = in.xs[i]

\* Every requested level lies strictly inside the x-range of the grid.
LevelsInsideXRange(in) ==
    /\ in.levels # <<>>
    /\ \A l \in 1..Len(in.levels) :
           RLt(in.xs[1], in.levels[l]) /\ RLt(in.levels[l], in.xs[Len(in.xs)])

\* The levels the x-coordinate px is within EPSILON of.
OnSomeLevel(px, levels) ==
    \E l \in 1..Len(levels) : RLt(RAbs(RSub(px, levels[l])), EPSILON)

\* C1: on a grid with value(x, y) = x and a level L strictly inside the x-range,
\* every endpoint of every segment marching_squares returns has x = L, within
\* the interpolation tolerance.
C1_EndpointsOnLevel ==
    (ms_pc = "ms" /\ IsXGrid(ms_in) /\ LevelsInsideXRange(ms_in))
        => \A k \in 1..Len(ms_out.contours) : \A e \in 1..2 :
               OnSomeLevel(ms_out.contours[k][e][1], ms_in.levels)

AllValuesEqual(values) ==
    \A j \in 1..Len(values) : \A i \in 1..Len(values[j]) : values[j][i] = values[1][1]

\* abs(a - b) <= max(1e-6 * max(|a|, |b|), 1e-6), for a <= b.
WithinTolerance(a, b) ==
    \/ RLe(RSub(b, a), Q(1, 1000000))
    \/ (RMax(RAbs(a), RAbs(b)) # Zero
        /\ RLe(RDiv(RSub(b, a), RMax(RAbs(a), RAbs(b))), Q(1, 1000000)))

SampledGrid(in) == Len(in.xs) >= 1 /\ Len(in.ys) >= 1

NearlyFlat(in) ==
    /\ SampledGrid(in)
    /\ WithinTolerance(SeqMin(FlattenRows(in.values, 1), 1),
                       SeqMax(FlattenRows(in.values, 1), 1))

\* C2: a grid whose sampled values are all equal yields no segment, whatever
\* the levels asked of marching_squares; and when the smallest and the largest
\* sampled value are equal within tolerance the contour generation returns
\* nothing and selects no level.
C2_FlatGridNoContours ==
    /\ (ms_pc = "ms" /\ AllValuesEqual(ms_in.values)) => ms_out.contours = <<>>
    /\ (ms_pc = "contours" /\ NearlyFlat(ms_in)) => ms_out = NoResult

\* A contour generation on a grid that is not constant but flat within tolerance.
C2_Witness ==
    /\ ms_pc = "contours"
    /\ NearlyFlat(ms_in)
    /\ ~AllValuesEqual(ms_in.values)
    /\ ms_out.levels = <<>>

SampledMin(in) == SeqMin(FlattenRows(in.values, 1), 1)

SampledMax(in) == SeqMax(FlattenRows(in.values, 1), 1)

\* C21: when the sampled potential is not flat, exactly 7 levels are selected, equally
\* spaced, strictly increasing, each strictly between the minimum and the maximum sample.
C21_SevenLevelsStrictlyInside ==
    (ms_pc = "contours" /\ SampledGrid(ms_in) /\ ~NearlyFlat(ms_in)) =>
        /\ Len(ms_out.levels) = 7
        /\ \A i \in 1..7 :
               /\ RLt(SampledMin(ms_in), ms_out.levels[i])
               /\ RLt(ms_out.levels[i], SampledMax(ms_in))
        /\ \A i \in 1..6 :
               /\ RLt(ms_out.levels[i], ms_out.levels[i + 1])
               /\ RSub(ms_out.levels[i + 1], ms_out.levels[i])
                      = RSub(ms_out.levels[1], SampledMin(ms_in))
        /\ RSub(SampledMax(ms_in), ms_out.levels[7]) = RSub(ms_out.levels[1], SampledMin(ms_in))

\* A contour generation on a grid of three distinct values: levels 1/4, 1/2, ..., 7/4.
C21_Witness ==
    /\ ms_pc = "contours"
    /\ SampledGrid(ms_in)
    /\ ~NearlyFlat(ms_in)
    /\ SampledMin(ms_in) = R(0)
    /\ SampledMax(ms_in) = R(2)
    /\ ms_out.levels[1] = Q(1, 4)
    /\ ms_out.levels[7] = Q(7, 4)
    /\ ms_out.contours # <<>>

----------------------------------------------------------------------------
(* Specification SpecField: the three evaluators applied to points and     *)
(* sources drawn from bounded families.  The points and point charges lie  *)
(* on the corners of a 3 x 4 rectangle (all mutual distances are integers) *)
(* or on the x axis, at distances on both sides of the EPSILON threshold.  *)

MaxFieldCharges == 2

Pt(x, y) == <<x, y>>

LatticePoints == {Pt(R(0), R(0)), Pt(R(3), R(0)), Pt(R(0), R(4)), Pt(R(3), R(4))}

ChargeValues == {R(-1), Q(1, 2), R(2)}

PointCharge(x, y, q) == [x |-> x, y |-> y, q |-> q]

LineCharge(x1, y1, x2, y2, d) == [x1 |-> x1, y1 |-> y1, x2 |-> x2, y2 |-> y2, linear_density |-> d]

CurrentWire(x1, y1, x2, y2, c) == [x1 |-> x1, y1 |-> y1, x2 |-> x2, y2 |-> y2, current |-> c]

LatticeCharges == { PointCharge(p[1], p[2], q) : p \in LatticePoints, q \in ChargeValues }

SeqsUpTo(S, n) == UNION { [1..k -> S] : k \in 0..n }

\* Segment end points: coincident, closer than EPSILON, and (with zero density
\* or current) a segment of length 40.
SegmentEnds ==
    { <<R(0), R(0), R(0), R(0)>>, <<R(3), R(4), R(3), R(4)>>,
      <<R(0), R(0), Q(1, 2000000), R(0)>>, <<R(3), R(0), R(3), Q(1, 4000000)>> }

LongEnds == <<R(0), R(0), R(40), R(0)>>

FieldLines ==
    { LineCharge(e[1], e[2], e[3], e[4], d) : e \in SegmentEnds, d \in {R(1), R(-2)} }
    \cup { LineCharge(LongEnds[1], LongEnds[2], LongEnds[3], LongEnds[4], Zero) }

FieldWires ==
    { CurrentWire(e[1], e[2], e[3], e[4], c) : e \in SegmentEnds, c \in {R(1), R(-2)} }
    \cup { CurrentWire(LongEnds[1], LongEnds[2], LongEnds[3], LongEnds[4], Zero) }

ChargeOnlyInputs ==
    { [point |-> p, charges |-> cs, line_charges |-> <<>>, currents |-> <<>>] :
        p \in LatticePoints, cs \in SeqsUpTo(LatticeCharges, MaxFieldCharges) }

SegmentInputs ==
    { [point |-> p, charges |-> cs, line_charges |-> ls, currents |-> ws] :
        p \in LatticePoints,
        cs \in SeqsUpTo({PointCharge(R(0), R(0), R(2)), PointCharge(R(3), R(4), R(-1))}, 1),
        ls \in SeqsUpTo(FieldLines, 1),
        ws \in SeqsUpTo(FieldWires, 1) }

\* Distances r along the x axis from a charge at the origin: r*r is below EPSILON
\* for the first two, equal to it for the third.
AxisDistances == {Q(1, 2000), Q(1, 1250), Q(1, 1000), Q(1, 2), R(1), R(2), R(3)}

\* A second charge at (5, 0) joins the scenes whose distance is at least 1/2.
AxisMore(r) == IF RLt(r, Q(1, 2)) THEN {<<>>} ELSE {<<>>, <<PointCharge(R(5), R(0), R(1))>>}

AxisInputs ==
    UNION { { [point |-> Pt(RMul(R(s), r), R(0)),
               charges |-> <<PointCharge(R(0), R(0), q)>> \o more,
               line_charges |-> <<>>, currents |-> <<>>] :
                s \in {1, -1}, q \in ChargeValues \cup {Zero}, more \in AxisMore(r) } :
            r \in AxisDistances }

FieldInputs == ChargeOnlyInputs \cup SegmentInputs \cup AxisInputs

InitField ==
    /\ fe_in \in FieldInputs
    /\ fe_out = ZeroVec
    /\ fe_pc = "input"
    /\ MSIdle
    /\ LNIdle
    /\ SCIdle
    /\ CAMIdle
    /\ APPIdle

EvaluateE ==
    /\ fe_pc = "input"
    /\ fe_out' = compute_E_at_point(fe_in.point, fe_in.charges, fe_in.line_charges)
    /\ fe_pc' = "E"
    /\ UNCHANGED <<fe_in, msVars, lnVars, scVars, camVars, appVars>>

EvaluateB ==
    /\ fe_pc = "input"
    /\ fe_out' = compute_B_at_point(fe_in.point, fe_in.currents)
    /\ fe_pc' = "B"
    /\ UNCHANGED <<fe_in, msVars, lnVars, scVars, camVars, appVars>>

EvaluatePotential ==
    /\ fe_pc = "input"
    /\ fe_out' = compute_potential_at_point(fe_in.point, fe_in.charges, fe_in.line_charges)
    /\ fe_pc' = "V"
    /\ UNCHANGED <<fe_in, msVars, lnVars, scVars, camVars, appVars>>

NextField == EvaluateE \/ EvaluateB \/ EvaluatePotential

SpecField == InitField /\ [][NextField]_vars

----------------------------------------------------------------------------
(* Properties of the evaluators (SpecField).                               *)

\* The two end points of a segment source are closer than EPSILON.
IsDegenerate(seg) ==
    RLt(hypot(RSub(seg.x2, seg.x1), RSub(seg.y2, seg.y1)), EPSILON)

AllDegenerate(segs) == segs # <<>> /\ \A k \in 1..Len(segs) : IsDegenerate(segs[k])

\* C5: a line charge or wire whose end points coincide (length below EPSILON)
\* adds nothing to E, to the potential or to B at any point, whatever its
\* density or current: the value is the one the other sources produce alone.
C5_DegenerateSegmentAddsNothing ==
    /\ (fe_pc = "E" /\ AllDegenerate(fe_in.line_charges))
           => fe_out = compute_E_at_point(fe_in.point, fe_in.charges, <<>>)
    /\ (fe_pc = "V" /\ AllDegenerate(fe_in.line_charges))
           => fe_out = compute_potential_at_point(fe_in.point, fe_in.charges, <<>>)
    /\ (fe_pc = "B" /\ AllDegenerate(fe_in.currents)) => fe_out = ZeroVec

\* E evaluated on a degenerate line charge of nonzero density lying on the
\* evaluation point, beside a point charge whose field is not zero there.
C5_Witness ==
    /\ fe_pc = "E"
    /\ AllDegenerate(fe_in.line_charges)
    /\ fe_in.line_charges[1].linear_density # Zero
    /\ fe_in.point = <<fe_in.line_charges[1].x1, fe_in.line_charges[1].y1>>
    /\ fe_in.charges # <<>>
    /\ fe_out # ZeroVec

\* E was evaluated at (r, 0), r > 0, for a single point charge at the origin.
OnAxisOfOriginCharge ==
    /\ fe_pc = "E"
    /\ Len(fe_in.charges) = 1 /\ fe_in.line_charges = <<>>
    /\ fe_in.charges[1].x = Zero /\ fe_in.charges[1].y = Zero
    /\ fe_in.point[2] = Zero /\ RGt(fe_in.point[1], Zero)

\* (q / r^2, 0) for the charge and the point of the evaluation.
InverseSquareOnAxis ==
    <<RDiv(fe_in.charges[1].q, RMul(fe_in.point[1], fe_in.point[1])), Zero>>

\* C6 as stated: for a single point charge q at the origin,
\* compute_E_at_point((r, 0), [q], []) = (q / r^2, 0) for every r > 0.
C6_InverseSquareEveryR == OnAxisOfOriginCharge => fe_out = InverseSquareOnAxis

\* C6, amended: for a single point charge q at the origin,
\* compute_E_at_point((r, 0), [q], []) = (q / r^2, 0) for every r > 0 with
\* r^2 >= EPSILON (r >= 0.001); for a smaller r the result is (0, 0).
C6_InverseSquareOutsideEpsilon ==
    OnAxisOfOriginCharge =>
        IF RGe(RMul(fe_in.point[1], fe_in.point[1]), EPSILON)
        THEN fe_out = InverseSquareOnAxis
        ELSE fe_out = ZeroVec

\* An evaluation at distance 2 from a nonzero charge: the field is q / 4.
C6_Witness ==
    /\ OnAxisOfOriginCharge
    /\ fe_in.point[1] = R(2)
    /\ fe_in.charges[1].q # Zero
    /\ fe_out = <<RDiv(fe_in.charges[1].q, R(4)), Zero>>

\* C7: superposition.  E at p for two point charges is the componentwise sum
\* of E at p for each charge alone, also when p lies on one of the charges.
C7_Superposition ==
    (fe_pc = "E" /\ Len(fe_in.charges) = 2 /\ fe_in.line_charges = <<>>)
        => fe_out = <<RAdd(compute_E_at_point(fe_in.point, <<fe_in.charges[1]>>, <<>>)[1],
                           compute_E_at_point(fe_in.point, <<fe_in.charges[2]>>, <<>>)[1]),
                      RAdd(compute_E_at_point(fe_in.point, <<fe_in.charges[1]>>, <<>>)[2],
                           compute_E_at_point(fe_in.point, <<fe_in.charges[2]>>, <<>>)[2])>>

\* Two charges at different places, the point on the second one, a field there.
C7_Witness ==
    /\ fe_pc = "E"
    /\ Len(fe_in.charges) = 2 /\ fe_in.line_charges = <<>>
    /\ fe_in.point = <<fe_in.charges[2].x, fe_in.charges[2].y>>
    /\ fe_in.point # <<fe_in.charges[1].x, fe_in.charges[1].y>>
    /\ fe_out # ZeroVec

----------------------------------------------------------------------------
(* camera2d.py and scene2d.py: the viewport, the guard distances and the   *)
(* streamline tracer.  A scene is a record of the three source lists, the  *)
(* camera (offset_x, offset_y, zoom) and the workspace size (w, h).        *)

world_to_screen(camera, x, y) ==
    <<RMul(RSub(x, camera.offset_x), camera.zoom), RMul(RSub(y, camera.offset_y), camera.zoom)>>

screen_to_world(camera, sx, sy) ==
    IF camera.zoom = Zero THEN <<camera.offset_x, camera.offset_y>>
    ELSE <<RAdd(RDiv(sx, camera.zoom), camera.offset_x),
           RAdd(RDiv(sy, camera.zoom), camera.offset_y)>>

\* (x_min, y_min, x_max, y_max)
visible_world_rect(camera, workspace, margin) ==
    LET top_left == screen_to_world(camera, RNeg(margin), RNeg(margin))
        bottom_right == screen_to_world(camera, RAdd(workspace.w, margin),
                                        RAdd(workspace.h, margin))
    IN  <<top_left[1], top_left[2], bottom_right[1], bottom_right[2]>>

\* bounds = self._visible_world_rect(margin=200 / self.camera.zoom)
FieldBounds(scene) ==
    visible_world_rect(scene.camera, scene.workspace, RDiv(R(200), scene.camera.zoom))

\* bounds[0] <= p[0] <= bounds[2] and bounds[1] <= p[1] <= bounds[3]
InBounds(p, bounds) ==
    /\ RLe(bounds[1], p[1]) /\ RLe(p[1], bounds[3])
    /\ RLe(bounds[2], p[2]) /\ RLe(p[2], bounds[4])

charge_radius_world == R(20)

line_selection_threshold_world == R(14)

field_line_step_world(camera) == RMax(R(4), RDiv(R(30), RMax(camera.zoom, Q(1, 5))))

distance_to_segment(point, start, end) ==
    LET line_mag_sq == SumSq(RSub(end[1], start[1]), RSub(end[2], start[2]))
    IN  IF start = end \/ line_mag_sq = Zero
        THEN hypot(RSub(point[1], start[1]), RSub(point[2], start[2]))
        ELSE LET raw == RDiv(RAdd(RMul(RSub(point[1], start[1]), RSub(end[1], start[1])),
                                  RMul(RSub(point[2], start[2]), RSub(end[2], start[2]))),
                             line_mag_sq)
                 t == RMax(Zero, RMin(R(1), raw))
                 closest == <<RAdd(start[1], RMul(t, RSub(end[1], start[1]))),
                              RAdd(start[2], RMul(t, RSub(end[2], start[2])))>>
             IN  hypot(RSub(point[1], closest[1]), RSub(point[2], closest[2]))

near_e_source(scene, point) ==
    \/ \E k \in 1..Len(scene.charges) :
          RLt(hypot(RSub(point[1], scene.charges[k].x), RSub(point[2], scene.charges[k].y)),
              RMul(charge_radius_world, Q(9, 10)))
    \/ \E k \in 1..Len(scene.line_charges) :
          RLt(distance_to_segment(point,
                  <<scene.line_charges[k].x1, scene.line_charges[k].y1>>,
                  <<scene.line_charges[k].x2, scene.line_charges[k].y2>>),
              RMul(line_selection_threshold_world, Q(6, 10)))

near_b_source(scene, point) ==
    \E k \in 1..Len(scene.currents) :
        RLt(distance_to_segment(point,
                <<scene.currents[k].x1, scene.currents[k].y1>>,
                <<scene.currents[k].x2, scene.currents[k].y2>>),
            RMul(line_selection_threshold_world, Q(6, 10)))

\* field_func: the lambda each generator hands to the tracer.
field_func(scene, kind, p) ==
    IF kind = "E" THEN compute_E_at_point(p, scene.charges, scene.line_charges)
    ELSE compute_B_at_point(p, scene.currents)

max_steps == 600

\* magnitude < 1e-4
BelowTraceThreshold(magnitude) == RLt(magnitude, Q(1, 10000))

\* norm, negated for the reverse sense, and the point one step along it.
NextPoint(current, field_vec, magnitude, direction, step) ==
    IF direction < 0
    THEN <<RAdd(current[1], RMul(RNeg(RDiv(field_vec[1], magnitude)), step)),
           RAdd(current[2], RMul(RNeg(RDiv(field_vec[2], magnitude)), step))>>
    ELSE <<RAdd(current[1], RMul(RDiv(field_vec[1], magnitude), step)),
           RAdd(current[2], RMul(RDiv(field_vec[2], magnitude), step))>>

\* The three tests that end the trace at a candidate point.
StopsAt(scene, bounds, avoid, next_point) ==
    \/ ~InBounds(next_point, bounds)
    \/ (avoid = "E" /\ near_e_source(scene, next_point))
    \/ (avoid = "B" /\ near_b_source(scene, next_point))

\* The loop of _trace_field_line from its iteration n on (TraceLoop), split at
\* the values one iteration computes: the field at the current point
\* (TraceField), its magnitude (TraceMagnitude) and the candidate point
\* (TraceNext).  The points so far are a value (a sequence) before the next
\* iteration starts.
RECURSIVE TraceLoop(_, _, _, _, _, _, _, _, _)
RECURSIVE TraceField(_, _, _, _, _, _, _, _, _, _)
RECURSIVE TraceMagnitude(_, _, _, _, _, _, _, _, _, _, _)
RECURSIVE TraceNext(_, _, _, _, _, _, _, _, _)

TraceNext(scene, kind, bounds, avoid, direction, step, points, n, next_point) ==
    IF StopsAt(scene, bounds, avoid, next_point) THEN points
    ELSE LET appended == Append(points, next_point)
         IN  IF Len(appended) > n
             THEN TraceLoop(scene, kind, bounds, avoid, direction, step,
                            next_point, appended, n + 1)
             ELSE appended

TraceMagnitude(scene, kind, bounds, avoid, direction, step, current, points, n, field_vec, magnitude) ==
    IF BelowTraceThreshold(magnitude) THEN points
    ELSE TraceNext(scene, kind, bounds, avoid, direction, step, points, n,
                   NextPoint(current, field_vec, magnitude, direction, step))

TraceField(scene, kind, bounds, avoid, direction, step, current, points, n, field_vec) ==
    TraceMagnitude(scene, kind, bounds, avoid, direction, step, current, points, n,
                   field_vec, compute_field_magnitude(field_vec))

TraceLoop(scene, kind, bounds, avoid, direction, step, current, points, n) ==
    IF n >= max_steps THEN points
    ELSE TraceField(scene, kind, bounds, avoid, direction, step, current, points, n,
                    field_func(scene, kind, current))

trace_field_line(scene, start, kind, bounds, avoid, direction) ==
    TraceLoop(scene, kind, bounds, avoid, direction,
              field_line_step_world(scene.camera), start, <<start>>, 0)

----------------------------------------------------------------------------
(* scene2d.py: _generate_e_field_lines and _generate_b_field_lines.        *)

seeds_per_charge == 12

\* (cos, sin) of 2 pi i / 12.  The thirty-degree directions are the rational
\* unit vectors (780/901, 451/901) and (451/901, 780/901), within 0.0006 of
\* the float values, so that distances along a seed's ray stay rational.
SeedDirection(i) ==
    CASE i = 0 -> <<R(1), R(0)>>
      [] i = 1 -> <<Q(780, 901), Q(451, 901)>>
      [] i = 2 -> <<Q(451, 901), Q(780, 901)>>
      [] i = 3 -> <<R(0), R(1)>>
      [] i = 4 -> <<Q(-451, 901), Q(780, 901)>>
      [] i = 5 -> <<Q(-780, 901), Q(451, 901)>>
      [] i = 6 -> <<R(-1), R(0)>>
      [] i = 7 -> <<Q(-780, 901), Q(-451, 901)>>
      [] i = 8 -> <<Q(-451, 901), Q(-780, 901)>>
      [] i = 9 -> <<R(0), R(-1)>>
      [] i = 10 -> <<Q(451, 901), Q(-780, 901)>>
      [] OTHER -> <<Q(780, 901), Q(-451, 901)>>

\* seed_radius = self._charge_radius_world() * 1.4
seed_radius == RMul(charge_radius_world, Q(14, 10))

\* Seed i of a charge.
ChargeSeed(charge, i) ==
    <<RAdd(charge.x, RMul(SeedDirection(i)[1], seed_radius)),
      RAdd(charge.y, RMul(SeedDirection(i)[2], seed_radius))>>

\* A caller keeps the polyline only when it has more than one point.
KeepLine_nonempty(line) == IF Len(line) > 0 THEN <<line>> ELSE <<>>

\* if len(line) > 1: lines.append(line)
KeepLine(line) == IF Len(line) > 1 THEN <<line>> ELSE <<>>

\* The lines of one seed of a charge: skipped when the seed is out of bounds,
\* else one trace per direction, forward then reverse.
ChargeSeedLines(scene, bounds, start) ==
    IF ~InBounds(start, bounds) THEN <<>>
    ELSE KeepLine(trace_field_line(scene, start, "E", bounds, "E", 1))
         \o KeepLine(trace_field_line(scene, start, "E", bounds, "E", -1))

\* Job c, from 0, of the walk over charges (outer) and seeds (inner).
RECURSIVE ELinesFrom(_, _, _)
ELinesFrom(scene, bounds, c) ==
    IF c >= Len(scene.charges) * seeds_per_charge THEN <<>>
    ELSE ChargeSeedLines(scene, bounds,
             ChargeSeed(scene.charges[(c \div seeds_per_charge) + 1], c % seeds_per_charge))
         \o ELinesFrom(scene, bounds, c + 1)

generate_e_field_lines(scene, bounds) == ELinesFrom(scene, bounds, 0)

\* Scene2D._normalize_vector
normalize_vector(vec) ==
    LET length == hypot(vec[1], vec[2])
    IN  IF RLt(length, Q(1, 100000000)) THEN ZeroVec
        ELSE <<RDiv(vec[1], length), RDiv(vec[2], length)>>

\* int(x) for x >= 0
IntPart(x) == x[1] \div x[2]

\* segments = max(4, int(length / max(self._field_line_step_world(), 1.0)))
WireSeedSegments(scene, wire) ==
    LET length == hypot(RSub(wire.x2, wire.x1), RSub(wire.y2, wire.y1))
        n == IntPart(RDiv(length, RMax(field_line_step_world(scene.camera), R(1))))
    IN  IF n > 4 THEN n ELSE 4

WireNormal(wire) ==
    LET direction_vec == normalize_vector(<<RSub(wire.x2, wire.x1), RSub(wire.y2, wire.y1)>>)
        normal == normalize_vector(<<RNeg(direction_vec[2]), direction_vec[1]>>)
    IN  IF normal = ZeroVec THEN <<R(0), R(1)>> ELSE normal

\* The seed beside sub-segment i (from 0) of a wire, on the side given by sign.
WireSeed(scene, wire, i, sign) ==
    LET t == Q(2 * i + 1, 2 * WireSeedSegments(scene, wire))
        base == <<RAdd(wire.x1, RMul(RSub(wire.x2, wire.x1), t)),
                  RAdd(wire.y1, RMul(RSub(wire.y2, wire.y1), t))>>
        offset == RMul(line_selection_threshold_world, Q(8, 10))
    IN  <<RAdd(base[1], RMul(RMul(WireNormal(wire)[1], offset), R(sign))),
          RAdd(base[2], RMul(RMul(WireNormal(wire)[2], offset), R(sign)))>>

\* The calls of _trace_field_line made for one seed of a wire: none for a seed out of
\* bounds, else one, with direction=sign.
WireSeedCalls(bounds, start, sign) ==
    IF ~InBounds(start, bounds) THEN <<>> ELSE <<[start |-> start, direction |-> sign]>>

\* The line of one seed of a wire: one trace, in the direction of the seed's side.
WireSeedLines(scene, bounds, start, sign) ==
    IF WireSeedCalls(bounds, start, sign) = <<>> THEN <<>>
    ELSE KeepLine(trace_field_line(scene, WireSeedCalls(bounds, start, sign)[1].start, "B", bounds,
                                   "B", WireSeedCalls(bounds, start, sign)[1].direction))

RECURSIVE WireLinesFrom(_, _, _, _)
WireLinesFrom(scene, bounds, wire, i) ==
    IF i >= WireSeedSegments(scene, wire) THEN <<>>
    ELSE WireSeedLines(scene, bounds, WireSeed(scene, wire, i, 1), 1)
         \o WireSeedLines(scene, bounds, WireSeed(scene, wire, i, -1), -1)
         \o WireLinesFrom(scene, bounds, wire, i + 1)

RECURSIVE BLinesFrom(_, _, _)
BLinesFrom(scene, bounds, k) ==
    IF k > Len(scene.currents) THEN <<>>
    ELSE WireLinesFrom(scene, bounds, scene.currents[k], 0)
         \o BLinesFrom(scene, bounds, k + 1)

generate_b_field_lines(scene, bounds) == BLinesFrom(scene, bounds, 1)

RECURSIVE WireCallsFrom(_, _, _, _)
WireCallsFrom(scene, bounds, wire, i) ==
    IF i >= WireSeedSegments(scene, wire) THEN <<>>
    ELSE WireSeedCalls(bounds, WireSeed(scene, wire, i, 1), 1)
         \o WireSeedCalls(bounds, WireSeed(scene, wire, i, -1), -1)
         \o WireCallsFrom(scene, bounds, wire, i + 1)

RECURSIVE BCallsFrom(_, _, _)
BCallsFrom(scene, bounds, k) ==
    IF k > Len(scene.currents) THEN <<>>
    ELSE WireCallsFrom(scene, bounds, scene.currents[k], 0) \o BCallsFrom(scene, bounds, k + 1)

\* The calls of _trace_field_line that _generate_b_field_lines makes, in order.
b_trace_calls(scene, bounds) == BCallsFrom(scene, bounds, 1)

\* The polylines _draw_field_visuals hands to pygame.draw.lines.
DrawnLines(lines) == SelectSeq(lines, LAMBDA line : ~(Len(line) < 2))

\* The point charges whose squared distance to the point is at least EPSILON.
FarCharges(point, charges) ==
    SelectSeq(charges, LAMBDA c : ~RLt(SumSq(RSub(point[1], c.x), RSub(point[2], c.y)), EPSILON))

\* The evaluation of fe_pc with the point charges closer than that left out.
WithoutNearCharges(in, evaluator) ==
    IF evaluator = "E"
    THEN compute_E_at_point(in.point, FarCharges(in.point, in.charges), in.line_charges)
    ELSE compute_potential_at_point(in.point, FarCharges(in.point, in.charges), in.line_charges)

\* C22: a point charge whose squared distance to the evaluation point is below EPSILON
\* adds nothing to E or to the potential: the result is the sum over the other sources.
C22_NearSourceAddsNothing ==
    fe_pc \in {"E", "V"} => fe_out = WithoutNearCharges(fe_in, fe_pc)

\* What holds of both: evaluated exactly at a point charge, that charge adds nothing.
AtSourceAddsNothing ==
    (fe_pc \in {"E", "V"} /\ Len(fe_in.charges) >= 1
        /\ fe_in.point = Pt(fe_in.charges[1].x, fe_in.charges[1].y)) =>
            fe_out = IF fe_pc = "E"
                     THEN compute_E_at_point(fe_in.point, Tail(fe_in.charges), fe_in.line_charges)
                     ELSE compute_potential_at_point(fe_in.point, Tail(fe_in.charges),
                                                     fe_in.line_charges)

----------------------------------------------------------------------------
(* Specification SpecLines: the tracer and the two generators applied to   *)
(* scenes drawn from a bounded family.  The point charges of a scene share *)
(* one position, so that the field along every seed's ray is rational; the *)
(* wire carries no current (its field is zero everywhere).                 *)

MaxLineCharges == 2

\* The workspace of the 960 x 640 window beside the 280-pixel panel.
DefaultWorkspace == [w |-> R(680), h |-> R(640)]

Camera(offset_x, offset_y, zoom) == [offset_x |-> offset_x, offset_y |-> offset_y, zoom |-> zoom]

\* The default camera, the camera at MIN_ZOOM, and the camera at MAX_ZOOM moved
\* so that one seed of the charge position is in view.
LineCameras == {Camera(R(0), R(0), R(1)), Camera(R(0), R(0), Q(1, 20)),
                Camera(R(311), R(319), R(120))}

LineChargeValues == {Q(1, 4), Q(-1, 4), Q(1, 20)}

LineSceneCharges ==
    SeqsUpTo({PointCharge(R(340), R(320), q) : q \in LineChargeValues}, MaxLineCharges)

LineSceneWires == {<<>>, <<CurrentWire(R(300), R(300), R(340), R(300), Zero)>>}

LineScenes ==
    { [charges |-> cs, line_charges |-> <<>>, currents |-> ws,
       camera |-> cam, workspace |-> DefaultWorkspace] :
        cs \in LineSceneCharges, ws \in LineSceneWires, cam \in LineCameras }

NoLines ==
    [kind |-> "none", start |-> ZeroVec, direction |-> 0,
     points |-> <<>>, lines |-> <<>>, drawn |-> <<>>, traced |-> <<>>]

\* The seeds the generators trace from: those inside the bounds.
TraceStarts(scene, kind) ==
    LET all == IF kind = "E"
               THEN { ChargeSeed(scene.charges[k], i) :
                        k \in 1..Len(scene.charges), i \in 0..(seeds_per_charge - 1) }
               ELSE UNION { { WireSeed(scene, scene.currents[k], i, sign) :
                                i \in 0..(WireSeedSegments(scene, scene.currents[k]) - 1),
                                sign \in {1, -1} } :
                            k \in 1..Len(scene.currents) }
    IN  { p \in all : InBounds(p, FieldBounds(scene)) }

InitLines ==
    /\ ln_in \in LineScenes
    /\ ln_out = NoLines
    /\ ln_pc = "input"
    /\ MSIdle
    /\ FEIdle
    /\ SCIdle
    /\ CAMIdle
    /\ APPIdle

TraceFieldLine ==
    /\ ln_pc = "input"
    /\ \E kind \in {"E", "B"} : \E start \in TraceStarts(ln_in, kind) : \E direction \in {1, -1} :
          ln_out' = [NoLines EXCEPT !.kind = kind, !.start = start, !.direction = direction,
                         !.points = trace_field_line(ln_in, start, kind, FieldBounds(ln_in),
                                                     kind, direction)]
    /\ ln_pc' = "trace"
    /\ UNCHANGED <<ln_in, msVars, feVars, scVars, camVars, appVars>>

GenerateEFieldLines ==
    /\ ln_pc = "input"
    /\ ln_out' = [NoLines EXCEPT !.kind = "E",
                      !.lines = generate_e_field_lines(ln_in, FieldBounds(ln_in))]
    /\ ln_pc' = "E"
    /\ UNCHANGED <<ln_in, msVars, feVars, scVars, camVars, appVars>>

GenerateBFieldLines ==
    /\ ln_pc = "input"
    /\ ln_out' = [NoLines EXCEPT !.kind = "B",
                      !.lines = generate_b_field_lines(ln_in, FieldBounds(ln_in)),
                      !.traced = b_trace_calls(ln_in, FieldBounds(ln_in))]
    /\ ln_pc' = "B"
    /\ UNCHANGED <<ln_in, msVars, feVars, scVars, camVars, appVars>>

DrawFieldLines ==
    /\ ln_pc \in {"E", "B"}
    /\ ln_out' = [ln_out EXCEPT !.drawn = DrawnLines(ln_out.lines)]
    /\ ln_pc' = "drawn"
    /\ UNCHANGED <<ln_in, msVars, feVars, scVars, camVars, appVars>>

NextLines == TraceFieldLine \/ GenerateEFieldLines \/ GenerateBFieldLines \/ DrawFieldLines

SpecLines == InitLines /\ [][NextLines]_vars

----------------------------------------------------------------------------
(* Properties of the tracer and the generators (SpecLines).                *)

\* The magnitude of the traced field at the seed of the last trace.
SeedMagnitude ==
    compute_field_magnitude(field_func(ln_in, ln_out.kind, ln_out.start))

AtLeastTwoPoints(lines) == \A k \in 1..Len(lines) : Len(lines[k]) >= 2

\* C3: a trace whose field magnitude at the seed is below 1e-4 returns the seed
\* alone; the generators keep no polyline of fewer than two points and the
\* drawing draws none, so no cached or drawn field line has fewer than two points.
C3_NoShortFieldLine ==
    /\ (ln_pc = "trace" /\ RLt(SeedMagnitude, Q(1, 10000)))
           => ln_out.points = <<ln_out.start>>
    /\ (ln_pc \in {"E", "B", "drawn"}) => AtLeastTwoPoints(ln_out.lines)
    /\ (ln_pc = "drawn") => AtLeastTwoPoints(ln_out.drawn)

\* A trace from a seed where the field is not zero but is below the threshold.
C3_Witness ==
    /\ ln_pc = "trace"
    /\ field_func(ln_in, ln_out.kind, ln_out.start) # ZeroVec
    /\ RLt(SeedMagnitude, Q(1, 10000))
    /\ ln_out.points = <<ln_out.start>>

\* The squared distance of a point from the single charge of the scene.
SqDistanceFromCharge(p) ==
    SumSq(RSub(p[1], ln_in.charges[1].x), RSub(p[2], ln_in.charges[1].y))

\* The trace follows the field away from the charge: q > 0 traced forward, or
\* q < 0 traced in reverse.
TracedOutward ==
    (RGt(ln_in.charges[1].q, Zero)) <=> (ln_out.direction = 1)

\* C4: in a scene with a single point charge, the first step of a streamline
\* seeded on the charge's seed circle moves it away from the charge when q > 0
\* and the trace is forward, toward the charge when q < 0; the sense is reversed
\* for a reverse trace.
C4_FirstStepFollowsSign ==
    (/\ ln_pc = "trace" /\ ln_out.kind = "E"
     /\ Len(ln_in.charges) = 1 /\ ln_in.line_charges = <<>>
     /\ ln_in.charges[1].q # Zero
     /\ Len(ln_out.points) >= 2)
        => IF TracedOutward
           THEN RGt(SqDistanceFromCharge(ln_out.points[2]),
                    SqDistanceFromCharge(ln_out.points[1]))
           ELSE RLt(SqDistanceFromCharge(ln_out.points[2]),
                    SqDistanceFromCharge(ln_out.points[1]))

\* The seeds of the wires of the scene that are inside the bounds.
WireSeedsInBounds(scene, bounds) ==
    {seed \in UNION {{WireSeed(scene, scene.currents[k], i, sign) :
                         i \in 0..(WireSeedSegments(scene, scene.currents[k]) - 1), sign \in {1, -1}} :
                     k \in 1..Len(scene.currents)} :
        InBounds(seed, bounds)}

\* C18: every seed beside a wire is traced in both directions, forward and reverse.
C18_WireSeedsTracedBothWays ==
    ln_pc = "B" =>
        \A seed \in WireSeedsInBounds(ln_in, FieldBounds(ln_in)) : \A direction \in {1, -1} :
            \E n \in 1..Len(ln_out.traced) :
                ln_out.traced[n] = [start |-> seed, direction |-> direction]

\* What the generator does: one trace for each seed in bounds.
WireSeedsTracedOnce ==
    ln_pc = "B" =>
        /\ Len(ln_out.traced) = Cardinality(WireSeedsInBounds(ln_in, FieldBounds(ln_in)))
        /\ \A seed \in WireSeedsInBounds(ln_in, FieldBounds(ln_in)) :
               \E n \in 1..Len(ln_out.traced) : ln_out.traced[n].start = seed

----------------------------------------------------------------------------
(* scene2d.py, base_scene.py, camera2d.py: the interactive scene.          *)
(*                                                                         *)
(* self is the Scene2D object, one record field per attribute.  Python's   *)
(* None is the empty tuple, an index into a list is zero-based as in the   *)
(* code, and a text is the sequence of its characters.  Each cached        *)
(* collection holds either nothing or the call that produced it (the       *)
(* generator and the arguments it read): SpecLines and SpecMS evaluate the *)
(* generators themselves, the scene only decides when they run.            *)

None == <<>>

\* pygame.Rect(left, top, width, height)
Rect(left, top, width, height) == [left |-> left, top |-> top, width |-> width, height |-> height]

\* Rect.bottom
Bottom(rect) == rect.top + rect.height

\* Rect.collidepoint: the right and bottom edges are outside
collidepoint(rect, pos) ==
    /\ rect.left <= pos[1] /\ pos[1] < rect.left + rect.width
    /\ rect.top <= pos[2] /\ pos[2] < rect.top + rect.height

\* pygame.display.set_mode((960, 640))
ScreenSize == <<960, 640>>

panel_width == 280

----------------------------------------------------------------------------
(* float(text) and f"{value:.4g}" on the texts the two input boxes hold.   *)

DigitChars == <<"0", "1", "2", "3", "4", "5", "6", "7", "8", "9">>

IsDigit(c) == \E d \in 1..10 : DigitChars[d] = c

DigitValue(c) == (CHOOSE d \in 1..10 : DigitChars[d] = c) - 1

RECURSIVE Pow10(_)
Pow10(k) == IF k = 0 THEN 1 ELSE 10 * Pow10(k - 1)

RECURSIVE DigitsValue(_, _, _)
DigitsValue(digits, k, acc) ==
    IF k > Len(digits) THEN acc
    ELSE DigitsValue(digits, k + 1, 10 * acc + DigitValue(digits[k]))

PositionsOf(c, chars) == {k \in 1..Len(chars) : chars[k] = c}

\* digits with at most one point and at least one digit: <<value>>, else None
ParseUnsigned(chars) ==
    LET points == PositionsOf(".", chars)
        digits == SelectSeq(chars, IsDigit)
    IN  IF Cardinality(points) > 1 \/ Len(digits) = 0
           \/ Len(digits) + Cardinality(points) # Len(chars)
        THEN None
        ELSE <<Q(DigitsValue(digits, 1, 0),
                 Pow10(IF points = {} THEN 0 ELSE Len(chars) - (CHOOSE k \in points : TRUE)))>>

Signed(chars, magnitude) ==
    IF magnitude = None THEN None
    ELSE IF chars[1] = "-" THEN <<RNeg(magnitude[1])>> ELSE magnitude

ParseDecimal(chars) ==
    IF chars # <<>> /\ chars[1] \in {"-", "+"} THEN Signed(chars, ParseUnsigned(Tail(chars)))
    ELSE ParseUnsigned(chars)

\* the exponent after "e": an optional sign and at least one digit
ParseExponent(chars) ==
    LET digits == IF chars # <<>> /\ chars[1] \in {"-", "+"} THEN Tail(chars) ELSE chars
    IN  IF digits = <<>> \/ Len(SelectSeq(digits, IsDigit)) # Len(digits) THEN None
        ELSE IF chars[1] = "-" THEN <<-DigitsValue(digits, 1, 0)>>
        ELSE <<DigitsValue(digits, 1, 0)>>

Scale10(a, k) == IF k >= 0 THEN RMul(a, R(Pow10(k))) ELSE RDiv(a, R(Pow10(-k)))

WithExponent(mantissa, exponent) ==
    IF mantissa = None \/ exponent = None THEN None
    ELSE <<Scale10(mantissa[1], exponent[1])>>

\* float(text): <<value>>, or None where Python raises ValueError
ParseFloat(chars) ==
    LET es == PositionsOf("e", chars)
    IN  IF es = {} THEN ParseDecimal(chars)
        ELSE IF Cardinality(es) > 1 THEN None
        ELSE WithExponent(ParseDecimal(SubSeq(chars, 1, (CHOOSE k \in es : TRUE) - 1)),
                          ParseExponent(SubSeq(chars, (CHOOSE k \in es : TRUE) + 1, Len(chars))))

\* the decimal exponent of a > 0: 10^e <= a < 10^(e+1)
RECURSIVE Exp10(_)
Exp10(a) ==
    IF RGe(a, R(10)) THEN Exp10(RDiv(a, R(10))) + 1
    ELSE IF RLt(a, R(1)) THEN Exp10(RMul(a, R(10))) - 1
    ELSE 0

\* a >= 0 rounded to an integer, ties to even
RoundHalfEven(a) ==
    LET floor == a[1] \div a[2]
        twice == 2 * (a[1] % a[2])
    IN  IF twice < a[2] THEN floor
        ELSE IF twice > a[2] THEN floor + 1
        ELSE IF floor % 2 = 0 THEN floor ELSE floor + 1

RECURSIVE IntChars(_)
IntChars(n) ==
    IF n < 10 THEN <<DigitChars[n + 1]>>
    ELSE Append(IntChars(n \div 10), DigitChars[(n % 10) + 1])

RECURSIVE PadLeft(_, _)
PadLeft(chars, width) == IF Len(chars) >= width THEN chars ELSE PadLeft(<<"0">> \o chars, width)

RECURSIVE StripZeros(_)
StripZeros(chars) ==
    IF chars # <<>> /\ chars[Len(chars)] = "0" THEN StripZeros(SubSeq(chars, 1, Len(chars) - 1))
    ELSE chars

Fraction(chars) == IF StripZeros(chars) = <<>> THEN <<>> ELSE <<".">> \o StripZeros(chars)

\* m / 10^decimals without trailing zeros
FixedNotation(m, decimals) ==
    IntChars(m \div Pow10(decimals))
        \o Fraction(PadLeft(IntChars(m % Pow10(decimals)), decimals))

ExponentNotation(m, e) ==
    FixedNotation(m, 3) \o <<"e", IF e < 0 THEN "-" ELSE "+">> \o PadLeft(IntChars(IAbs(e)), 2)

\* the four significant digits m of a value of decimal exponent e
FormatSignificand(m, e) ==
    IF e < -4 \/ e >= 4 THEN ExponentNotation(m, e) ELSE FixedNotation(m, 3 - e)

FormatRounded(m, e) == IF m = 10000 THEN FormatSignificand(1000, e + 1) ELSE FormatSignificand(m, e)

FormatMagnitude(a, e) == FormatRounded(RoundHalfEven(Scale10(a, 3 - e)), e)

\* f"{value:.4g}"
FormatG4(value) ==
    IF value = Zero THEN <<"0">>
    ELSE (IF value[1] < 0 THEN <<"-">> ELSE <<>>) \o FormatMagnitude(RAbs(value), Exp10(RAbs(value)))

----------------------------------------------------------------------------
(* Scene2D.__init__                                                        *)

FieldTypes == {"ELECTROSTATIC", "MAGNETOSTATIC", "COUPLED"}

\* the identifiers of _build_type_options
type_options(field_type) ==
    IF field_type = "ELECTROSTATIC" THEN <<"point", "line">>
    ELSE IF field_type = "MAGNETOSTATIC" THEN <<"current">>
    ELSE <<"point", "line", "current">>

Scene2D(field_type) ==
    [ field_type |-> field_type,
      running |-> TRUE,
      panel_rect |-> Rect(ScreenSize[1] - panel_width, 0, panel_width, ScreenSize[2]),
      workspace_rect |-> Rect(0, 0, ScreenSize[1] - panel_width, ScreenSize[2]),
      camera |-> Camera(Zero, Zero, R(1)),
      is_panning |-> FALSE,
      charges |-> <<>>,
      line_charges |-> <<>>,
      currents |-> <<>>,
      selected_object |-> None,
      pending_start |-> None,
      selected_type |-> type_options(field_type)[1],
      input_value |-> <<"1", ".", "0">>,
      input_active |-> FALSE,
      selected_input_value |-> <<>>,
      selected_input_active |-> FALSE,
      show_field_lines_mode |-> "none",
      show_potentials |-> FALSE,
      show_help |-> FALSE,
      field_lines_E |-> <<>>,
      field_lines_B |-> <<>>,
      potential_contours |-> <<>>,
      field_dirty |-> TRUE,
      field_toggle_rect |-> Rect(0, 0, 0, 0),
      potential_toggle_rect |-> Rect(0, 0, 0, 0),
      drag_candidate |-> None,
      drag_initial_mouse |-> None,
      drag_start_world |-> None,
      drag_initial_object_state |-> None,
      is_dragging_object |-> FALSE,
      left_click_active |-> FALSE,
      left_click_suppressed |-> FALSE,
      vector_field_skip |-> 1,
      field_vectors_E |-> <<>>,
      field_vectors_B |-> <<>>,
      max_vector_magnitude_E |-> Zero,
      max_vector_magnitude_B |-> Zero ]

----------------------------------------------------------------------------
(* Scene2D: helpers of the handlers                                        *)

\* A _mark_field_dirty that leaves the flag as it is.
mark_field_dirty_noop(s) == s

mark_field_dirty(s) == [s EXCEPT !.field_dirty = TRUE]

\* <<object>>, or None
get_object(s, kind, index) ==
    IF kind = "charge" /\ 0 <= index /\ index < Len(s.charges) THEN <<s.charges[index + 1]>>
    ELSE IF kind = "line" /\ 0 <= index /\ index < Len(s.line_charges)
    THEN <<s.line_charges[index + 1]>>
    ELSE IF kind = "current" /\ 0 <= index /\ index < Len(s.currents)
    THEN <<s.currents[index + 1]>>
    ELSE None

ObjectValue(kind, obj) ==
    IF kind = "charge" THEN obj.q
    ELSE IF kind = "line" THEN obj.linear_density
    ELSE obj.current

parse_value(s) == IF ParseFloat(s.input_value) = None THEN Zero ELSE ParseFloat(s.input_value)[1]

populate_selected_input(s) ==
    IF s.selected_object = None
    THEN [s EXCEPT !.selected_input_value = <<>>, !.selected_input_active = FALSE]
    ELSE IF get_object(s, s.selected_object[1], s.selected_object[2]) = None
    THEN [s EXCEPT !.selected_object = None, !.selected_input_value = <<>>,
                   !.selected_input_active = FALSE]
    ELSE [s EXCEPT !.selected_input_value =
              FormatG4(ObjectValue(s.selected_object[1],
                                   get_object(s, s.selected_object[1], s.selected_object[2])[1]))]

WithValue(s, kind, index, new_value) ==
    IF kind = "charge" THEN [s EXCEPT !.charges[index + 1].q = new_value]
    ELSE IF kind = "line" THEN [s EXCEPT !.line_charges[index + 1].linear_density = new_value]
    ELSE [s EXCEPT !.currents[index + 1].current = new_value]

apply_selected_input_value(s) ==
    IF s.selected_object = None THEN s
    ELSE IF ParseFloat(s.selected_input_value) = None THEN s
    ELSE IF get_object(s, s.selected_object[1], s.selected_object[2]) = None THEN s
    ELSE IF ObjectValue(s.selected_object[1],
                        get_object(s, s.selected_object[1], s.selected_object[2])[1])
            = ParseFloat(s.selected_input_value)[1]
    THEN s
    ELSE mark_field_dirty(WithValue(s, s.selected_object[1], s.selected_object[2],
                                    ParseFloat(s.selected_input_value)[1]))

\* math.hypot(point - center) <= radius, decided on the squares
point_within_radius(point, center, radius) ==
    RLe(SumSq(RSub(point[1], center[1]), RSub(point[2], center[2])), RMul(radius, radius))

ClosestOnSegment(point, start, end, t) ==
    <<RAdd(start[1], RMul(t, RSub(end[1], start[1]))),
      RAdd(start[2], RMul(t, RSub(end[2], start[2])))>>

SegmentParameter(point, start, end) ==
    RMax(Zero, RMin(R(1),
        RDiv(RAdd(RMul(RSub(point[1], start[1]), RSub(end[1], start[1])),
                  RMul(RSub(point[2], start[2]), RSub(end[2], start[2]))),
             SumSq(RSub(end[1], start[1]), RSub(end[2], start[2])))))

point_near_segment(point, start, end, threshold) ==
    IF start = end THEN point_within_radius(point, start, threshold)
    ELSE point_within_radius(point,
             ClosestOnSegment(point, start, end, SegmentParameter(point, start, end)),
             threshold)

\* the charge of highest index under position, scanning k = Len .. 1
RECURSIVE HitCharge(_, _, _)
HitCharge(s, position, k) ==
    IF k = 0 THEN None
    ELSE IF point_within_radius(position, <<s.charges[k].x, s.charges[k].y>>, charge_radius_world)
    THEN <<"charge", k - 1>>
    ELSE HitCharge(s, position, k - 1)

RECURSIVE HitSegment(_, _, _, _)
HitSegment(segments, kind, position, k) ==
    IF k = 0 THEN None
    ELSE IF point_near_segment(position, <<segments[k].x1, segments[k].y1>>,
                               <<segments[k].x2, segments[k].y2>>, line_selection_threshold_world)
    THEN <<kind, k - 1>>
    ELSE HitSegment(segments, kind, position, k - 1)

FirstHit(a, b, c) == IF a # None THEN a ELSE IF b # None THEN b ELSE c

hit_test_object(s, position) ==
    FirstHit(HitCharge(s, position, Len(s.charges)),
             HitSegment(s.line_charges, "line", position, Len(s.line_charges)),
             HitSegment(s.currents, "current", position, Len(s.currents)))

CapturedState(kind, obj) ==
    IF kind = "charge" THEN <<obj.x, obj.y>>
    ELSE IF kind \in {"line", "current"} THEN <<obj.x1, obj.y1, obj.x2, obj.y2>>
    ELSE None

capture_object_state(s, hit) ==
    IF get_object(s, hit[1], hit[2]) = None THEN None
    ELSE CapturedState(hit[1], get_object(s, hit[1], hit[2])[1])

MovedSegment(seg, base_state, delta) ==
    [seg EXCEPT !.x1 = RAdd(base_state[1], delta[1]), !.y1 = RAdd(base_state[2], delta[2]),
                !.x2 = RAdd(base_state[3], delta[1]), !.y2 = RAdd(base_state[4], delta[2])]

apply_object_translation(s, hit, delta) ==
    IF s.drag_initial_object_state = None THEN s
    ELSE IF get_object(s, hit[1], hit[2]) = None THEN s
    ELSE IF hit[1] = "charge" /\ Len(s.drag_initial_object_state) >= 2
    THEN [s EXCEPT !.charges[hit[2] + 1].x = RAdd(s.drag_initial_object_state[1], delta[1]),
                   !.charges[hit[2] + 1].y = RAdd(s.drag_initial_object_state[2], delta[2])]
    ELSE IF hit[1] = "line" /\ Len(s.drag_initial_object_state) >= 4
    THEN [s EXCEPT !.line_charges[hit[2] + 1] =
              MovedSegment(@, s.drag_initial_object_state, delta)]
    ELSE IF hit[1] = "current" /\ Len(s.drag_initial_object_state) >= 4
    THEN [s EXCEPT !.currents[hit[2] + 1] = MovedSegment(@, s.drag_initial_object_state, delta)]
    ELSE s

\* self._screen_to_world(local) of a workspace pixel
LocalWorld(s, position) ==
    screen_to_world(s.camera, R(position[1] - s.workspace_rect.left),
                    R(position[2] - s.workspace_rect.top))

----------------------------------------------------------------------------
(* Scene2D: object creation, deletion and duplication                      *)

place_point_charge(s, position) ==
    mark_field_dirty(populate_selected_input(
        [s EXCEPT !.charges = Append(@, PointCharge(position[1], position[2], parse_value(s))),
                  !.selected_object = <<"charge", Len(s.charges)>>,
                  !.pending_start = None]))

handle_segment_placement(s, position) ==
    IF s.pending_start # None /\ s.pending_start[1] = s.selected_type
    THEN IF s.selected_type = "line"
         THEN mark_field_dirty(populate_selected_input(
                  [s EXCEPT !.line_charges =
                                Append(@, LineCharge(s.pending_start[2][1], s.pending_start[2][2],
                                                     position[1], position[2], parse_value(s))),
                            !.selected_object = <<"line", Len(s.line_charges)>>,
                            !.pending_start = None]))
         ELSE mark_field_dirty(populate_selected_input(
                  [s EXCEPT !.currents =
                                Append(@, CurrentWire(s.pending_start[2][1], s.pending_start[2][2],
                                                      position[1], position[2], parse_value(s))),
                            !.selected_object = <<"current", Len(s.currents)>>,
                            !.pending_start = None]))
    ELSE [s EXCEPT !.pending_start = <<s.selected_type, position>>, !.selected_object = None]

PopulateIfUnselected(s) == IF s.selected_object = None THEN populate_selected_input(s) ELSE s

handle_workspace_click_world(s, world_pos) ==
    IF s.selected_type = "point" THEN place_point_charge(s, world_pos)
    ELSE IF s.selected_type \in {"line", "current"}
    THEN PopulateIfUnselected(handle_segment_placement(s, world_pos))
    ELSE populate_selected_input([s EXCEPT !.selected_object = None,
                                           !.selected_input_value = <<>>,
                                           !.selected_input_active = FALSE])

\* del list[index]
RemoveAt(list, index) == SubSeq(list, 1, index) \o SubSeq(list, index + 2, Len(list))

DeletedFrom(s, kind, index) ==
    IF kind = "charge" /\ 0 <= index /\ index < Len(s.charges)
    THEN [s EXCEPT !.charges = RemoveAt(@, index)]
    ELSE IF kind = "line" /\ 0 <= index /\ index < Len(s.line_charges)
    THEN [s EXCEPT !.line_charges = RemoveAt(@, index)]
    ELSE IF kind = "current" /\ 0 <= index /\ index < Len(s.currents)
    THEN [s EXCEPT !.currents = RemoveAt(@, index)]
    ELSE s

\* A deletion that leaves selected_object as it was.
delete_selected_object_keeping_selection(s) ==
    IF s.selected_object = None THEN s
    ELSE mark_field_dirty(DeletedFrom(s, s.selected_object[1], s.selected_object[2]))

delete_selected_object(s) ==
    IF s.selected_object = None THEN s
    ELSE mark_field_dirty(populate_selected_input(
             [DeletedFrom(s, s.selected_object[1], s.selected_object[2])
                  EXCEPT !.selected_object = None,
                         !.selected_input_value = <<>>,
                         !.selected_input_active = FALSE]))

duplicate_offset == R(40)

DuplicateOf(kind, obj) ==
    IF kind = "charge" THEN PointCharge(obj.x, RSub(obj.y, duplicate_offset), obj.q)
    ELSE IF kind = "line"
    THEN LineCharge(obj.x1, RSub(obj.y1, duplicate_offset), obj.x2,
                    RSub(obj.y2, duplicate_offset), obj.linear_density)
    ELSE CurrentWire(obj.x1, RSub(obj.y1, duplicate_offset), obj.x2,
                     RSub(obj.y2, duplicate_offset), obj.current)

Duplicated(s, kind, obj) ==
    IF kind = "charge"
    THEN [s EXCEPT !.charges = Append(@, DuplicateOf(kind, obj)),
                   !.selected_object = <<"charge", Len(s.charges)>>]
    ELSE IF kind = "line"
    THEN [s EXCEPT !.line_charges = Append(@, DuplicateOf(kind, obj)),
                   !.selected_object = <<"line", Len(s.line_charges)>>]
    ELSE [s EXCEPT !.currents = Append(@, DuplicateOf(kind, obj)),
                   !.selected_object = <<"current", Len(s.currents)>>]

duplicate_selected_object(s) ==
    IF s.selected_object = None THEN s
    ELSE IF get_object(s, s.selected_object[1], s.selected_object[2]) = None THEN s
    ELSE mark_field_dirty(populate_selected_input(
             [Duplicated(s, s.selected_object[1],
                         get_object(s, s.selected_object[1], s.selected_object[2])[1])
                  EXCEPT !.pending_start = None, !.selected_input_active = FALSE]))

----------------------------------------------------------------------------
(* Scene2D: the left click in the workspace                                *)

StartOnObject(s, position, world_pos, hit) ==
    populate_selected_input(
        [s EXCEPT !.input_active = FALSE,
                  !.selected_input_active = FALSE,
                  !.left_click_active = TRUE,
                  !.left_click_suppressed = FALSE,
                  !.drag_initial_mouse = position,
                  !.drag_candidate = hit,
                  !.selected_object = hit,
                  !.drag_start_world = world_pos,
                  !.drag_initial_object_state = capture_object_state(s, hit),
                  !.is_dragging_object = FALSE,
                  !.pending_start = None])

StartInVoid(s, position, world_pos) ==
    [s EXCEPT !.input_active = FALSE,
              !.selected_input_active = FALSE,
              !.left_click_active = TRUE,
              !.left_click_suppressed = FALSE,
              !.drag_initial_mouse = position,
              !.drag_candidate = None,
              !.drag_initial_object_state = None,
              !.drag_start_world = world_pos,
              !.is_dragging_object = FALSE]

StartAt(s, position, world_pos, hit) ==
    IF hit # None THEN StartOnObject(s, position, world_pos, hit)
    ELSE StartInVoid(s, position, world_pos)

start_workspace_left_click(s, position) ==
    StartAt(s, position, LocalWorld(s, position), hit_test_object(s, LocalWorld(s, position)))

drag_threshold == 5

\* math.hypot(dx, dy) > drag_threshold, decided on the squares of the pixel offsets
BeyondDragThreshold(s, pos) ==
    (pos[1] - s.drag_initial_mouse[1]) * (pos[1] - s.drag_initial_mouse[1])
        + (pos[2] - s.drag_initial_mouse[2]) * (pos[2] - s.drag_initial_mouse[2])
      > drag_threshold * drag_threshold

DragDelta(s, pos) ==
    <<RSub(LocalWorld(s, pos)[1], s.drag_start_world[1]),
      RSub(LocalWorld(s, pos)[2], s.drag_start_world[2])>>

continue_workspace_drag(s, pos) ==
    IF ~s.left_click_active \/ s.drag_initial_mouse = None THEN s
    ELSE IF s.drag_candidate # None /\ s.drag_initial_object_state # None
            /\ s.drag_start_world # None
    THEN IF s.is_dragging_object \/ BeyondDragThreshold(s, pos)
         THEN mark_field_dirty(apply_object_translation(
                  [s EXCEPT !.is_dragging_object = TRUE], s.drag_candidate, DragDelta(s, pos)))
         ELSE s
    ELSE IF ~s.left_click_suppressed /\ BeyondDragThreshold(s, pos)
    THEN [s EXCEPT !.left_click_suppressed = TRUE]
    ELSE s

FinishOnObject(s) ==
    IF s.is_dragging_object THEN populate_selected_input(s)
    ELSE populate_selected_input([s EXCEPT !.selected_object = s.drag_candidate,
                                           !.pending_start = None])

ReleasedClick(s) ==
    [s EXCEPT !.left_click_active = FALSE, !.left_click_suppressed = FALSE,
              !.drag_initial_mouse = None]

finish_workspace_left_click(s, position) ==
    IF s.drag_candidate # None
    THEN ReleasedClick([FinishOnObject(s) EXCEPT !.drag_candidate = None,
                                                 !.drag_initial_object_state = None,
                                                 !.drag_start_world = None,
                                                 !.is_dragging_object = FALSE])
    ELSE IF ~s.left_click_suppressed
    THEN ReleasedClick(handle_workspace_click_world(s, LocalWorld(s, position)))
    ELSE ReleasedClick(s)

----------------------------------------------------------------------------
(* Camera2D.zoom_at and the display toggles                                *)

MIN_ZOOM == Q(1, 20)

MAX_ZOOM == R(120)

\* the zoom changed around the camera's origin instead of the focus
ZoomedTo_about_origin(camera, focus_x, focus_y, world_focus, zoom) ==
    Camera(camera.offset_x, camera.offset_y, zoom)

ZoomedTo(camera, focus_x, focus_y, world_focus, zoom) ==
    Camera(RSub(world_focus[1], RDiv(focus_x, zoom)),
           RSub(world_focus[2], RDiv(focus_y, zoom)),
           zoom)

\* The zoom left as the product made it.
ClampedZoom_unclamped(zoom) == zoom

\* max(self.MIN_ZOOM, min(self.zoom, self.MAX_ZOOM))
ClampedZoom(zoom) == RMax(MIN_ZOOM, RMin(zoom, MAX_ZOOM))

zoom_at(camera, focus_x, focus_y, zoom_factor) ==
    IF RLe(zoom_factor, Zero) THEN camera
    ELSE ZoomedTo(camera, focus_x, focus_y, screen_to_world(camera, focus_x, focus_y),
                  ClampedZoom(RMul(camera.zoom, zoom_factor)))

handle_zoom(s, position, zoom_factor) ==
    mark_field_dirty([s EXCEPT !.camera = zoom_at(@, R(position[1] - s.workspace_rect.left),
                                                  R(position[2] - s.workspace_rect.top),
                                                  zoom_factor)])

modes == <<"none", "E", "B", "both">>

ModeIndex(mode) ==
    IF \E i \in 1..Len(modes) : modes[i] = mode
    THEN (CHOOSE i \in 1..Len(modes) : modes[i] = mode) - 1
    ELSE 0

\* The mode moved one place back in the list.
cycle_field_line_mode_backwards(s) ==
    [s EXCEPT !.show_field_lines_mode = modes[((ModeIndex(@) + 3) % Len(modes)) + 1],
              !.field_dirty = TRUE]

cycle_field_line_mode(s) ==
    [s EXCEPT !.show_field_lines_mode = modes[((ModeIndex(@) + 1) % Len(modes)) + 1],
              !.field_dirty = TRUE]

toggle_potentials(s) == [s EXCEPT !.show_potentials = ~@, !.field_dirty = TRUE]

ClampSkip(n) == IF n < 1 THEN 1 ELSE IF n > 6 THEN 6 ELSE n

\* The flag raised by every press, also by one that leaves the value as it was.
change_vector_density_always_dirty(s, delta) ==
    mark_field_dirty([s EXCEPT !.vector_field_skip = ClampSkip(@ + delta)])

change_vector_density(s, delta) ==
    IF ClampSkip(s.vector_field_skip + delta) # s.vector_field_skip
    THEN mark_field_dirty([s EXCEPT !.vector_field_skip = ClampSkip(@ + delta)])
    ELSE s

----------------------------------------------------------------------------
(* Scene2D: the panel layout, shared by _handle_panel_click and _draw_panel *)

option_height == 52

option_spacing == 12

PanelRow(s, top, height) == Rect(s.panel_rect.left + 16, top, s.panel_rect.width - 32, height)

OptionRect(s, k) == PanelRow(s, 120 + (k - 1) * (option_height + option_spacing), option_height)

value_input_rect(s, y_offset) == PanelRow(s, y_offset, 42)

selected_value_input_rect(s, y_offset) == PanelRow(s, y_offset, 42)

duplicate_button_rect(s, y_offset) == PanelRow(s, y_offset, 44)

delete_button_rect(s, y_offset) == PanelRow(s, y_offset, 44)

InputRect(s) ==
    value_input_rect(s, 120 + Len(type_options(s.field_type)) * (option_height + option_spacing)
                        + 34)

SelectedRect(s) == selected_value_input_rect(s, Bottom(InputRect(s)) + 24 + 26 + 20)

ButtonsTop(s) ==
    IF s.selected_object # None THEN Bottom(SelectedRect(s)) + 16
    ELSE Bottom(InputRect(s)) + 24

DuplicateRect(s) == duplicate_button_rect(s, ButtonsTop(s))

DeleteRect(s) == delete_button_rect(s, Bottom(DuplicateRect(s)) + 10)

ClickedOptions(s, position) ==
    {k \in 1..Len(type_options(s.field_type)) : collidepoint(OptionRect(s, k), position)}

\* A panel click that leaves pending_start as it was.
PanelCleared_keeping_start(s) ==
    [s EXCEPT !.input_active = FALSE, !.selected_input_active = FALSE]

PanelCleared(s) ==
    [s EXCEPT !.input_active = FALSE, !.selected_input_active = FALSE, !.pending_start = None]

handle_panel_click(s, position) ==
    IF ClickedOptions(s, position) # {}
    THEN [PanelCleared(s) EXCEPT !.selected_type =
              type_options(s.field_type)[CHOOSE k \in ClickedOptions(s, position) :
                                             \A j \in ClickedOptions(s, position) : k <= j]]
    ELSE IF collidepoint(InputRect(s), position)
    THEN [PanelCleared(s) EXCEPT !.input_active = TRUE]
    ELSE IF s.selected_object # None /\ collidepoint(SelectedRect(s), position)
    THEN [PanelCleared(s) EXCEPT !.selected_input_active = TRUE]
    ELSE IF collidepoint(DuplicateRect(s), position) /\ s.selected_object # None
    THEN duplicate_selected_object(PanelCleared(s))
    ELSE IF collidepoint(DeleteRect(s), position) /\ s.selected_object # None
    THEN delete_selected_object(PanelCleared(s))
    ELSE IF collidepoint(s.field_toggle_rect, position)
    THEN cycle_field_line_mode(PanelCleared(s))
    ELSE IF collidepoint(s.potential_toggle_rect, position)
    THEN toggle_potentials(PanelCleared(s))
    ELSE PanelCleared(s)

draw_panel(s) ==
    [s EXCEPT !.field_toggle_rect = PanelRow(s, Bottom(DeleteRect(s)) + 24, 48),
              !.potential_toggle_rect = PanelRow(s, Bottom(DeleteRect(s)) + 24 + 48 + 14, 48)]

----------------------------------------------------------------------------
(* Scene2D._handle_input_key                                               *)

AllowedChars == {"0", "1", "2", "3", "4", "5", "6", "7", "8", "9", ".", "-"}

TargetValue(s) == IF s.selected_input_active THEN s.selected_input_value ELSE s.input_value

StoreTarget(s, target_value) ==
    IF s.selected_input_active THEN [s EXCEPT !.selected_input_value = target_value]
    ELSE [s EXCEPT !.input_value = target_value]

\* text[:-1]
ButLast(text) == IF text = <<>> THEN <<>> ELSE SubSeq(text, 1, Len(text) - 1)

handle_input_key(s, event) ==
    IF event.key = "K_BACKSPACE" THEN StoreTarget(s, ButLast(TargetValue(s)))
    ELSE IF event.key \in {"K_RETURN", "K_KP_ENTER"}
    THEN IF s.selected_input_active
         THEN StoreTarget(apply_selected_input_value([s EXCEPT !.selected_input_active = FALSE]),
                          TargetValue(s))
         ELSE StoreTarget([s EXCEPT !.input_active = FALSE], TargetValue(s))
    ELSE IF event.unicode \in AllowedChars
    THEN IF event.unicode = "-" /\ TargetValue(s) # <<>> THEN s
         ELSE IF event.unicode = "." /\ PositionsOf(".", TargetValue(s)) # {} THEN s
         ELSE StoreTarget(s, Append(TargetValue(s), event.unicode))
    ELSE StoreTarget(s, TargetValue(s))

----------------------------------------------------------------------------
(* Scene2D._ensure_field_visuals and Scene2D.draw                          *)

\* what the generators read of the camera and the workspace
GeometryScene(s) ==
    [charges |-> s.charges, line_charges |-> s.line_charges, currents |-> s.currents,
     camera |-> s.camera,
     workspace |-> [w |-> R(s.workspace_rect.width), h |-> R(s.workspace_rect.height)]]

vector_field_spacing_world(s) ==
    RMul(RMax(R(12), RDiv(R(90), RMax(s.camera.zoom, Q(1, 20)))),
         R(IF s.vector_field_skip > 1 THEN s.vector_field_skip ELSE 1))

\* The result of a generator on the scene, as a one-element list naming the call and
\* what it read: the bounds, the zoom (the tracing step) and the sources of its kind.
GeneratedE(generator, s) ==
    <<[call |-> generator, bounds |-> FieldBounds(GeometryScene(s)), zoom |-> s.camera.zoom,
       charges |-> s.charges, line_charges |-> s.line_charges]>>

GeneratedB(generator, s) ==
    <<[call |-> generator, bounds |-> FieldBounds(GeometryScene(s)), zoom |-> s.camera.zoom,
       currents |-> s.currents]>>

\* one component of the pair _sample_field_vectors(bounds, field_kind) returns
Sampled(component, field_kind, s) ==
    <<[call |-> "_sample_field_vectors", component |-> component,
       spacing |-> vector_field_spacing_world(s),
       result |-> IF field_kind = "E" THEN GeneratedE("E", s)[1] ELSE GeneratedB("B", s)[1]]>>

\* A regeneration test that ignores the flag.
needs_regeneration_always(s) == TRUE

needs_regeneration(s) == s.field_dirty

\* A regeneration that keeps the old caches and only overwrites what it generates.
ClearedCaches_kept(s) == s

ClearedCaches(s) ==
    [s EXCEPT !.field_lines_E = <<>>,
              !.field_lines_B = <<>>,
              !.potential_contours = <<>>,
              !.field_vectors_E = <<>>,
              !.field_vectors_B = <<>>,
              !.max_vector_magnitude_E = Zero,
              !.max_vector_magnitude_B = Zero]

WithVectorsE(s) ==
    IF s.charges # <<>> \/ s.line_charges # <<>>
    THEN [s EXCEPT !.field_vectors_E = Sampled("samples", "E", s),
                   !.max_vector_magnitude_E = Sampled("max_magnitude", "E", s)]
    ELSE s

WithVectorsB(s) ==
    IF s.currents # <<>>
    THEN [s EXCEPT !.field_vectors_B = Sampled("samples", "B", s),
                   !.max_vector_magnitude_B = Sampled("max_magnitude", "B", s)]
    ELSE s

WithLinesE(s) ==
    IF s.show_field_lines_mode \in {"E", "both"} /\ s.charges # <<>>
    THEN [s EXCEPT !.field_lines_E = GeneratedE("_generate_e_field_lines", s)]
    ELSE s

WithLinesB(s) ==
    IF s.show_field_lines_mode \in {"B", "both"} /\ s.currents # <<>>
    THEN [s EXCEPT !.field_lines_B = GeneratedB("_generate_b_field_lines", s)]
    ELSE s

WithContours(s) ==
    IF s.show_potentials /\ s.field_type # "MAGNETOSTATIC"
    THEN [s EXCEPT !.potential_contours = GeneratedE("_generate_potential_contours", s)]
    ELSE s

ensure_field_visuals(s) ==
    IF ~needs_regeneration(s) THEN s
    ELSE [WithContours(WithLinesB(WithLinesE(WithVectorsB(WithVectorsE(ClearedCaches(s))))))
              EXCEPT !.field_dirty = FALSE]

\* _draw_workspace, then _draw_panel
draw(s) == draw_panel(ensure_field_visuals(s))

----------------------------------------------------------------------------
(* BaseScene.handle_event and Scene2D.handle_event                         *)

base_handle_event(s, event) ==
    IF event.type = "QUIT" THEN [s EXCEPT !.running = FALSE]
    ELSE IF event.type = "KEYDOWN" /\ event.key = "K_ESCAPE" THEN [s EXCEPT !.running = FALSE]
    ELSE s

\* QUIT is handled and still the loop goes on
should_continue_always(event) == TRUE

\* the value BaseScene.handle_event returns
should_continue(event) == event.type # "QUIT"

\* 1.1 if event.button == 4 else 1 / 1.1
WheelFactor(button) == IF button = 4 THEN Q(11, 10) ELSE Q(10, 11)

OnMouseButtonDown(s, event) ==
    IF event.button = 1
    THEN IF collidepoint(s.panel_rect, event.pos) THEN handle_panel_click(s, event.pos)
         ELSE IF collidepoint(s.workspace_rect, event.pos)
         THEN start_workspace_left_click(s, event.pos)
         ELSE s
    ELSE IF event.button = 3 /\ collidepoint(s.workspace_rect, event.pos)
    THEN [s EXCEPT !.is_panning = TRUE]
    ELSE IF event.button \in {4, 5} /\ collidepoint(s.workspace_rect, event.pos)
    THEN handle_zoom(s, event.pos, WheelFactor(event.button))
    ELSE s

OnMouseButtonUp(s, event) ==
    IF event.button = 1 /\ s.left_click_active THEN finish_workspace_left_click(s, event.pos)
    ELSE IF event.button = 3 THEN [s EXCEPT !.is_panning = FALSE]
    ELSE s

Panned(s, event) ==
    IF s.is_panning
    THEN [s EXCEPT !.camera.offset_x = RSub(@, RDiv(R(event.rel[1]), s.camera.zoom)),
                   !.camera.offset_y = RSub(@, RDiv(R(event.rel[2]), s.camera.zoom)),
                   !.field_dirty = TRUE]
    ELSE s

OnMouseMotion(s, event) ==
    Panned(IF s.left_click_active THEN continue_workspace_drag(s, event.pos) ELSE s, event)

OnKeyDown(s, event) ==
    IF s.input_active \/ s.selected_input_active THEN handle_input_key(s, event)
    ELSE IF event.key = "K_DELETE" THEN delete_selected_object(s)
    ELSE IF event.key = "K_d" /\ event.ctrl THEN duplicate_selected_object(s)
    ELSE IF event.key = "K_l" THEN cycle_field_line_mode(s)
    ELSE IF event.key = "K_p" THEN toggle_potentials(s)
    ELSE IF event.key = "K_h" THEN [s EXCEPT !.show_help = ~@]
    ELSE IF event.key = "K_LEFTBRACKET" THEN change_vector_density(s, 1)
    ELSE IF event.key = "K_RIGHTBRACKET" THEN change_vector_density(s, -1)
    ELSE s

Dispatched(s, event) ==
    IF event.type = "VIDEORESIZE" THEN s
    ELSE IF event.type = "MOUSEBUTTONDOWN" THEN OnMouseButtonDown(s, event)
    ELSE IF event.type = "MOUSEBUTTONUP" THEN OnMouseButtonUp(s, event)
    ELSE IF event.type = "MOUSEMOTION" THEN OnMouseMotion(s, event)
    ELSE IF event.type = "KEYDOWN" THEN OnKeyDown(s, event)
    ELSE s

handle_event(s, event) ==
    IF ~should_continue(event) THEN base_handle_event(s, event)
    ELSE Dispatched(base_handle_event(s, event), event)

----------------------------------------------------------------------------
(* The scene machine: BaseScene.run handles the queued events one by one   *)
(* and draws after each batch.                                             *)

MaxEvents == 4

MaxZoomSteps == 2

\* two workspace pixels 12 apart: inside one charge radius, beyond the drag threshold
WorkspacePixels == {<<100, 100>>, <<112, 100>>}

WheelPixel == <<100, 100>>

\* one pixel inside a rectangle, just below its top edge
PixelIn(rect) == <<rect.left + rect.width \div 2, rect.top + 1>>

\* one visible pixel per panel rectangle of the current layout, and one in the header
PanelPixels(s) ==
    { p \in { PixelIn(OptionRect(s, k)) : k \in 1..Len(type_options(s.field_type)) }
            \cup { PixelIn(InputRect(s)), PixelIn(SelectedRect(s)), PixelIn(DuplicateRect(s)),
                   PixelIn(DeleteRect(s)), PixelIn(s.field_toggle_rect),
                   PixelIn(s.potential_toggle_rect), <<s.panel_rect.left + 20, 24>> } :
        collidepoint(s.panel_rect, p) }

RECURSIVE RPow(_, _)
RPow(a, k) == IF k = 0 THEN R(1) ELSE RMul(a, RPow(a, k - 1))

\* the wheel is turned only while the zoom stays within MaxZoomSteps notches of 1
WheelButtons(s) ==
    { b \in {4, 5} :
        /\ RLe(RMul(s.camera.zoom, WheelFactor(b)), RPow(Q(11, 10), MaxZoomSteps))
        /\ RGe(RMul(s.camera.zoom, WheelFactor(b)), RPow(Q(10, 11), MaxZoomSteps)) }

MouseButtonDownEvents(s) ==
    { [type |-> "MOUSEBUTTONDOWN", button |-> 1, pos |-> p] :
          p \in WorkspacePixels \cup PanelPixels(s) }
        \cup { [type |-> "MOUSEBUTTONDOWN", button |-> b, pos |-> WheelPixel] :
                   b \in {3} \cup WheelButtons(s) }

MouseButtonUpEvents ==
    { [type |-> "MOUSEBUTTONUP", button |-> 1, pos |-> p] : p \in WorkspacePixels }
        \cup { [type |-> "MOUSEBUTTONUP", button |-> 3, pos |-> WheelPixel] }

\* the mouse moving between the two workspace pixels
MouseMotionEvents ==
    { [type |-> "MOUSEMOTION", pos |-> <<112, 100>>, rel |-> <<12, 0>>],
      [type |-> "MOUSEMOTION", pos |-> <<100, 100>>, rel |-> <<-12, 0>>] }

Key(key, unicode, ctrl) == [type |-> "KEYDOWN", key |-> key, unicode |-> unicode, ctrl |-> ctrl]

KeyDownEvents ==
    { Key("K_BACKSPACE", "", FALSE), Key("K_RETURN", "", FALSE), Key("K_DELETE", "", FALSE),
      Key("K_ESCAPE", "", FALSE), Key("K_d", "", TRUE), Key("K_l", "l", FALSE),
      Key("K_p", "p", FALSE), Key("K_h", "h", FALSE), Key("K_LEFTBRACKET", "[", FALSE),
      Key("K_RIGHTBRACKET", "]", FALSE), Key("K_2", "2", FALSE), Key("K_MINUS", "-", FALSE),
      Key("K_PERIOD", ".", FALSE) }

\* charges, lines, wires, camera, workspace size, mode, potentials, density
RegenerationInputs(s) ==
    [charges |-> s.charges, line_charges |-> s.line_charges, currents |-> s.currents,
     camera |-> s.camera, workspace_rect |-> s.workspace_rect,
     show_field_lines_mode |-> s.show_field_lines_mode,
     show_potentials |-> s.show_potentials, vector_field_skip |-> s.vector_field_skip]

CacheNames ==
    {"field_lines_E", "field_lines_B", "potential_contours", "field_vectors_E",
     "field_vectors_B", "max_vector_magnitude_E", "max_vector_magnitude_B"}

EmptyCache(name) == IF name \in {"max_vector_magnitude_E", "max_vector_magnitude_B"} THEN Zero ELSE <<>>

NonEmptyCaches(s) == {name \in CacheNames : s[name] # EmptyCache(name)}

Init ==
    /\ \E field_type \in FieldTypes : self = Scene2D(field_type)
    /\ run_pc = "events"
    /\ hist = [events |-> 0, last_draw |-> "none", regenerated_from |-> None, replaced |-> {}]
    /\ MSIdle
    /\ FEIdle
    /\ LNIdle
    /\ CAMIdle
    /\ APPIdle

\* one iteration of `for event in pygame.event.get()`
Handle(event) ==
    /\ hist.events < MaxEvents
    /\ self' = handle_event(self, event)
    /\ run_pc' = IF should_continue(event) THEN "events" ELSE "returned_False"
    /\ hist' = IF self' = self THEN hist
               ELSE [hist EXCEPT !.events = @ + 1, !.last_draw = "none", !.replaced = {}]
    /\ UNCHANGED <<msVars, feVars, lnVars, camVars, appVars>>

Quit ==
    /\ run_pc = "events"
    /\ Handle([type |-> "QUIT"])

VideoResize ==
    /\ run_pc = "events"
    /\ Handle([type |-> "VIDEORESIZE"])

MouseButtonDown ==
    /\ run_pc = "events"
    /\ \E event \in MouseButtonDownEvents(self) : Handle(event)

MouseButtonUp ==
    /\ run_pc = "events"
    /\ \E event \in MouseButtonUpEvents : Handle(event)

MouseMotion ==
    /\ run_pc = "events"
    /\ \E event \in MouseMotionEvents : Handle(event)

KeyDown ==
    /\ run_pc = "events"
    /\ \E event \in KeyDownEvents : Handle(event)

\* self.update(); self.draw(); flip; tick; then the test of `while self.running`
Draw ==
    /\ run_pc = "events"
    /\ self' = draw(self)
    /\ run_pc' = IF self.running THEN "events" ELSE "returned_True"
    /\ hist' = IF needs_regeneration(self)
               THEN [hist EXCEPT !.last_draw = "regenerated",
                                 !.regenerated_from = <<RegenerationInputs(self)>>,
                                 !.replaced = NonEmptyCaches(self)]
               ELSE [hist EXCEPT !.last_draw = "reused", !.replaced = {}]
    /\ UNCHANGED <<msVars, feVars, lnVars, camVars, appVars>>

Next ==
    \/ Quit
    \/ VideoResize
    \/ MouseButtonDown
    \/ MouseButtonUp
    \/ MouseMotion
    \/ KeyDown
    \/ Draw

Spec == Init /\ [][Next]_vars

----------------------------------------------------------------------------
(* Properties of the scene machine (Spec)                                  *)

Caches(s) ==
    <<s.field_lines_E, s.field_lines_B, s.potential_contours, s.field_vectors_E,
      s.field_vectors_B, s.max_vector_magnitude_E, s.max_vector_magnitude_B>>

\* the scene with its flag raised, as a regeneration would find it
MadeDirty(s) == [s EXCEPT !.field_dirty = TRUE]

\* C8: whenever field_dirty is false, the sources, the camera, the workspace, the
\* field-line mode, the potential toggle and the vector density are those of the last
\* regeneration, and the caches are what regenerating the current state would give;
\* so a state that differs from the one last regenerated always has field_dirty true.
C8_StaleImpliesDirty ==
    ~self.field_dirty =>
        /\ hist.regenerated_from = <<RegenerationInputs(self)>>
        /\ Caches(self) = Caches(ensure_field_visuals(MadeDirty(self)))

\* a source was added, moved or removed after a regeneration, and the flag is raised
C8_Witness ==
    /\ hist.regenerated_from # None
    /\ hist.regenerated_from[1].charges # self.charges
    /\ hist.regenerated_from[1].camera # self.camera
    /\ self.field_dirty

\* C9: a draw always leaves field_dirty false; a draw that finds field_dirty false
\* leaves the seven caches as they were; and a draw that directly follows a draw, with
\* no state-changing event between them, never regenerates.
C9_RegenerateOnlyWhenDirty ==
    [][Draw =>
          /\ ~self'.field_dirty
          /\ (~self.field_dirty => Caches(self') = Caches(self) /\ hist'.last_draw = "reused")
          /\ (hist.last_draw # "none" => hist'.last_draw = "reused")]_vars

\* a draw reused cached vectors and field lines without regenerating them
C9_Witness ==
    /\ hist.last_draw = "reused"
    /\ self.field_vectors_E # <<>>
    /\ self.field_lines_E # <<>>

\* C10: right after a regeneration every cache is either empty or the result of its
\* generator on the current scene; field_lines_E is empty unless the mode is E or both
\* and a point charge exists, field_lines_B unless the mode is B or both and a wire
\* exists, potential_contours unless potentials are shown, and each vector set and its
\* maximum are empty and 0 when their source lists are empty.
C10_RegenerationReplacesCaches ==
    hist.last_draw = "regenerated" =>
        /\ self.field_lines_E \in {<<>>, GeneratedE("_generate_e_field_lines", self)}
        /\ self.field_lines_B \in {<<>>, GeneratedB("_generate_b_field_lines", self)}
        /\ self.potential_contours \in {<<>>, GeneratedE("_generate_potential_contours", self)}
        /\ self.field_vectors_E \in {<<>>, Sampled("samples", "E", self)}
        /\ self.field_vectors_B \in {<<>>, Sampled("samples", "B", self)}
        /\ self.max_vector_magnitude_E \in {Zero, Sampled("max_magnitude", "E", self)}
        /\ self.max_vector_magnitude_B \in {Zero, Sampled("max_magnitude", "B", self)}
        /\ (self.field_lines_E # <<>> =>
                self.show_field_lines_mode \in {"E", "both"} /\ self.charges # <<>>)
        /\ (self.field_lines_B # <<>> =>
                self.show_field_lines_mode \in {"B", "both"} /\ self.currents # <<>>)
        /\ (self.potential_contours # <<>> => self.show_potentials)
        /\ (self.charges = <<>> /\ self.line_charges = <<>> =>
                self.field_vectors_E = <<>> /\ self.max_vector_magnitude_E = Zero)
        /\ (self.currents = <<>> =>
                self.field_vectors_B = <<>> /\ self.max_vector_magnitude_B = Zero)

\* a regeneration found field lines of E cached and left none, the mode having moved on
C10_Witness ==
    /\ hist.last_draw = "regenerated"
    /\ "field_lines_E" \in hist.replaced
    /\ self.field_lines_E = <<>>
    /\ self.charges # <<>>
    /\ self.field_vectors_E # <<>>

----------------------------------------------------------------------------
(* Specification SpecTrace: _trace_field_line run one loop iteration at a   *)
(* time.  While it runs, ln_out holds the arguments of the call (field,     *)
(* avoid, start, direction), the local `points`, the number n of iterations *)
(* of `for _ in range(max_steps)` completed, why the loop was left (ended)  *)
(* and the candidate point a break turned down (rejected).                 *)

\* A range that never runs out of items.
RangeExhausted_never(n) == FALSE

\* range(max_steps) has no further item after n iterations
RangeExhausted(n) == n >= max_steps

\* The field functions handed to the tracer: the lambdas of the two generators
\* ("E", "B") and a uniform field of magnitude 1.
TraceFields == {"E", "B", "uniform"}

TracedField(scene, field, p) ==
    IF field = "uniform" THEN <<Q(4, 5), Q(-3, 5)>> ELSE field_func(scene, field, p)

\* The first `break` of an iteration whose candidate is next_point, or "none".
BreakAt(scene, avoid, magnitude, next_point) ==
    IF BelowTraceThreshold(magnitude) THEN "magnitude"
    ELSE IF ~InBounds(next_point, FieldBounds(scene)) THEN "bounds"
    ELSE IF StopsAt(scene, FieldBounds(scene), avoid, next_point) THEN "guard"
    ELSE "none"

\* An append that takes the candidate whatever the tests said.
Appended_unchecked(points, next_point, break) ==
    IF break = "magnitude" THEN points ELSE Append(points, next_point)

\* points after one iteration: unchanged by a break, else with the candidate appended
Appended(points, next_point, break) ==
    IF break = "none" THEN Append(points, next_point) ELSE points

\* The locals after an iteration that computed next_point and left by `break`.
Iterated(out, next_point, break) ==
    [out EXCEPT !.n = @ + 1,
                !.points = Appended(@, next_point, break),
                !.ended = break,
                !.rejected = IF break \in {"bounds", "guard"} THEN <<next_point>> ELSE <<>>]

IteratedFrom(scene, out, field_vec, magnitude) ==
    Iterated(out,
             IF BelowTraceThreshold(magnitude) THEN out.points[Len(out.points)]
             ELSE NextPoint(out.points[Len(out.points)], field_vec, magnitude,
                            out.direction, field_line_step_world(scene.camera)),
             BreakAt(scene, out.avoid, magnitude,
                     IF BelowTraceThreshold(magnitude) THEN out.points[Len(out.points)]
                     ELSE NextPoint(out.points[Len(out.points)], field_vec, magnitude,
                                    out.direction, field_line_step_world(scene.camera))))

IteratedField(scene, out, field_vec) ==
    IteratedFrom(scene, out, field_vec, compute_field_magnitude(field_vec))

\* One pass through the body of the for loop; `current` is the last of `points`.
trace_iteration(scene, out) ==
    IteratedField(scene, out, TracedField(scene, out.field, out.points[Len(out.points)]))

\* A negative charge seen at zoom 1/2, where a step of 60 carries a streamline
\* over the charge and back.
SteppedOverScene ==
    [charges |-> <<PointCharge(R(340), R(320), Q(-1, 4))>>, line_charges |-> <<>>,
     currents |-> <<>>, camera |-> Camera(R(0), R(0), Q(1, 2)), workspace |-> DefaultWorkspace]

\* A positive charge with a line charge of density 0 across a seed's ray (it adds
\* no field and keeps its guard distance).
GuardedScene ==
    [charges |-> <<PointCharge(R(340), R(320), Q(1, 4))>>,
     line_charges |-> <<LineCharge(R(400), R(300), R(400), R(340), Zero)>>,
     currents |-> <<>>, camera |-> Camera(R(0), R(0), R(1)), workspace |-> DefaultWorkspace]

\* A wire without current seen at zoom 10, where a step is 4.
WireScene ==
    [charges |-> <<>>, line_charges |-> <<>>,
     currents |-> <<CurrentWire(R(300), R(300), R(340), R(300), Zero)>>,
     camera |-> Camera(R(290), R(280), R(10)), workspace |-> DefaultWorkspace]

TraceScenes == {SteppedOverScene, GuardedScene, WireScene}

\* The seeds traced: the generators' seeds on the axes through a charge and
\* beside a wire.
TraceSeeds(scene) ==
    { p \in TraceStarts(scene, "E") : p[1][2] = 1 /\ p[2][2] = 1 }
        \cup TraceStarts(scene, "B")

Tracing(field, avoid, start, direction) ==
    [field |-> field, avoid |-> avoid, start |-> start, direction |-> direction,
     points |-> <<start>>, n |-> 0, ended |-> "no", rejected |-> <<>>]

InitTrace ==
    /\ ln_in \in TraceScenes
    /\ ln_out = NoLines
    /\ ln_pc = "input"
    /\ MSIdle
    /\ FEIdle
    /\ SCIdle
    /\ CAMIdle
    /\ APPIdle

\* points = [start]; current = start; step = ...; max_steps = 600
TraceCall ==
    /\ ln_pc = "input"
    /\ \E field \in TraceFields : \E avoid \in {"E", "B"} :
       \E start \in TraceSeeds(ln_in) : \E direction \in {1, -1} :
          ln_out' = Tracing(field, avoid, start, direction)
    /\ ln_pc' = "loop"
    /\ UNCHANGED <<ln_in, msVars, feVars, scVars, camVars, appVars>>

\* one iteration of the for loop
TraceIteration ==
    /\ ln_pc = "loop"
    /\ ~RangeExhausted(ln_out.n)
    /\ ln_out' = trace_iteration(ln_in, ln_out)
    /\ ln_pc' = IF ln_out'.ended = "none" THEN "loop" ELSE "returned"
    /\ UNCHANGED <<ln_in, msVars, feVars, scVars, camVars, appVars>>

\* the for loop runs out of items: return points
TraceExhausted ==
    /\ ln_pc = "loop"
    /\ RangeExhausted(ln_out.n)
    /\ ln_out' = [ln_out EXCEPT !.ended = "exhausted"]
    /\ ln_pc' = "returned"
    /\ UNCHANGED <<ln_in, msVars, feVars, scVars, camVars, appVars>>

NextTrace == TraceCall \/ TraceIteration \/ TraceExhausted

SpecTrace == InitTrace /\ [][NextTrace]_vars

----------------------------------------------------------------------------
(* Properties of the tracer (SpecTrace)                                    *)

TraceRunning == ln_pc \in {"loop", "returned"}

\* C11: a call of _trace_field_line makes at most 600 iterations: every step of its
\* loop either returns or completes one more iteration, of which there are never more
\* than 600, so the call returns after at most 601 steps.  Its polyline never has
\* more than 601 points nor more than one point per iteration beside the seed, its
\* first point is the seed, and a call that used up the 600 iterations returns the
\* points traced so far like any other call.
C11_TraceEndsWithinCap ==
    /\ [](TraceRunning =>
            /\ ln_out.n <= 600
            /\ Len(ln_out.points) <= 601
            /\ Len(ln_out.points) <= ln_out.n + 1
            /\ ln_out.points[1] = ln_out.start
            /\ (ln_pc = "loop" => ln_out.ended \in {"no", "none"})
            /\ (ln_out.ended = "exhausted" => ln_pc = "returned" /\ ln_out.n = 600))
    /\ [][ln_pc = "loop" =>
            \/ ln_pc' = "loop" /\ ln_out'.n = ln_out.n + 1
            \/ ln_pc' = "returned" /\ ln_out'.ended # "exhausted"
            \/ ln_pc' = "returned" /\ ln_out'.ended = "exhausted"
                    /\ ln_out'.points = ln_out.points]_vars

\* a call returned after 600 iterations with 601 points
C11_Witness ==
    /\ ln_pc = "returned"
    /\ ln_out.ended = "exhausted"
    /\ ln_out.n = 600
    /\ Len(ln_out.points) = 601

\* The guard distances: 0.9 of the charge radius, 0.6 of the line threshold.
OutsideGuards(scene, avoid, p) ==
    /\ avoid = "E" =>
          /\ \A k \in 1..Len(scene.charges) :
                RGe(hypot(RSub(p[1], scene.charges[k].x), RSub(p[2], scene.charges[k].y)),
                    R(18))
          /\ \A k \in 1..Len(scene.line_charges) :
                RGe(distance_to_segment(p,
                        <<scene.line_charges[k].x1, scene.line_charges[k].y1>>,
                        <<scene.line_charges[k].x2, scene.line_charges[k].y2>>),
                    Q(84, 10))
    /\ avoid = "B" =>
          \A k \in 1..Len(scene.currents) :
              RGe(distance_to_segment(p,
                      <<scene.currents[k].x1, scene.currents[k].y1>>,
                      <<scene.currents[k].x2, scene.currents[k].y2>>),
                  Q(84, 10))

\* C12: every point appended to the polyline is inside the viewport bounds and at
\* least the guard distance (18 from a point charge, 8.4 from a line charge when
\* E sources are avoided; 8.4 from a wire when B sources are avoided) from every
\* source, and no iteration changes the points before it, so this holds of every
\* point after the seed; an iteration whose candidate is outside the bounds or
\* within a guard distance returns at once without appending it.
C12_PointsInsideBoundsOutsideGuards ==
    /\ [](TraceRunning =>
            \A k \in {Len(ln_out.points)} \ {1} :
                /\ InBounds(ln_out.points[k], FieldBounds(ln_in))
                /\ OutsideGuards(ln_in, ln_out.avoid, ln_out.points[k]))
    /\ [][ln_pc = "loop" /\ ln_out'.rejected # <<>> =>
            /\ ln_pc' = "returned"
            /\ ln_out'.points = ln_out.points
            /\ ~(/\ InBounds(ln_out'.rejected[1], FieldBounds(ln_in))
                 /\ OutsideGuards(ln_in, ln_out.avoid, ln_out'.rejected[1]))]_vars
    /\ [][ln_pc = "loop" /\ ln_out'.ended = "none" =>
            /\ Len(ln_out'.points) = Len(ln_out.points) + 1
            /\ SubSeq(ln_out'.points, 1, Len(ln_out.points)) = ln_out.points]_vars

\* a trace that avoids wires took a step and then turned down a candidate within the
\* guard distance of a wire, inside the bounds
C12_Witness ==
    /\ ln_pc = "returned"
    /\ ln_out.ended = "guard"
    /\ ln_out.avoid = "B"
    /\ Len(ln_out.points) >= 2
    /\ ln_out.rejected # <<>>
    /\ InBounds(ln_out.rejected[1], FieldBounds(ln_in))

----------------------------------------------------------------------------
(* Specification SpecPure: evaluations, traces and regenerations made one  *)
(* after another against one set of sources.  fe_in holds the sources and   *)
(* the point last evaluated; fe_out holds what the calls left behind: the   *)
(* values returned so far (memo, by evaluator), the last contents of the evaluators'      *)
(* locals field_x, field_y and potential, and the last polyline traced.     *)

MaxCalls == 3

PureCharges == SeqsUpTo({PointCharge(R(0), R(0), R(2)), PointCharge(R(3), R(4), R(-1))}, 1)

PureLines ==
    {<<>>,
     <<LineCharge(LongEnds[1], LongEnds[2], LongEnds[3], LongEnds[4], Zero)>>}

PureWires ==
    {<<>>,
     <<CurrentWire(LongEnds[1], LongEnds[2], LongEnds[3], LongEnds[4], Zero)>>}

PureInputs ==
    { [point |-> Pt(R(0), R(0)), charges |-> cs, line_charges |-> ls, currents |-> ws] :
        cs \in PureCharges, ls \in PureLines, ws \in PureWires }

\* The points evaluated and traced from: at distances 3 and 4 from the charges.
PurePoints == {Pt(R(3), R(0)), Pt(R(0), R(4))}

NoCalls ==
    [memo |-> [E |-> {}, B |-> {}, V |-> {}], field |-> ZeroVec, potential |-> Zero, traced |-> <<>>, calls |-> 0]

\* The scene a regeneration of these sources runs in: a new Scene2D holding them.
SceneOf(in) ==
    [Scene2D("COUPLED") EXCEPT !.charges = in.charges, !.line_charges = in.line_charges,
                               !.currents = in.currents, !.show_potentials = TRUE,
                               !.show_field_lines_mode = "both"]

\* The sources a scene holds.
SourcesOf(s, point) ==
    [point |-> point, charges |-> s.charges, line_charges |-> s.line_charges,
     currents |-> s.currents]

\* The scene the tracer runs in: the sources under the default camera.
TraceSceneOf(in) ==
    [charges |-> in.charges, line_charges |-> in.line_charges, currents |-> in.currents,
     camera |-> Camera(R(0), R(0), R(1)), workspace |-> DefaultWorkspace]

Returned(out, evaluator, point, value) ==
    [out EXCEPT !.memo[evaluator] = @ \cup {[point |-> point, value |-> value]},
                !.calls = @ + 1]

InitPure ==
    /\ fe_in \in PureInputs
    /\ fe_out = NoCalls
    /\ fe_pc = "input"
    /\ MSIdle
    /\ LNIdle
    /\ SCIdle
    /\ CAMIdle
    /\ APPIdle

CallE(point) ==
    /\ fe_out.calls < MaxCalls
    /\ fe_in' = [fe_in EXCEPT !.point = point]
    /\ fe_out' = [Returned(fe_out, "E", point,
                           compute_E_at_point(point, fe_in.charges, fe_in.line_charges))
                    EXCEPT !.field = compute_E_at_point(point, fe_in.charges, fe_in.line_charges)]
    /\ fe_pc' = "E"
    /\ UNCHANGED <<msVars, lnVars, scVars, camVars, appVars>>

CallB(point) ==
    /\ fe_out.calls < MaxCalls
    /\ fe_in' = [fe_in EXCEPT !.point = point]
    /\ fe_out' = [Returned(fe_out, "B", point, compute_B_at_point(point, fe_in.currents))
                    EXCEPT !.field = compute_B_at_point(point, fe_in.currents)]
    /\ fe_pc' = "B"
    /\ UNCHANGED <<msVars, lnVars, scVars, camVars, appVars>>

CallPotential(point) ==
    /\ fe_out.calls < MaxCalls
    /\ fe_in' = [fe_in EXCEPT !.point = point]
    /\ fe_out' = [Returned(fe_out, "V", point,
                           compute_potential_at_point(point, fe_in.charges, fe_in.line_charges))
                    EXCEPT !.potential =
                           compute_potential_at_point(point, fe_in.charges, fe_in.line_charges)]
    /\ fe_pc' = "V"
    /\ UNCHANGED <<msVars, lnVars, scVars, camVars, appVars>>

CallTrace(start, direction) ==
    /\ fe_out.calls < MaxCalls
    /\ fe_in' = fe_in
    /\ fe_out' = [fe_out EXCEPT !.calls = @ + 1,
                                !.traced = trace_field_line(TraceSceneOf(fe_in), start, "E",
                                               FieldBounds(TraceSceneOf(fe_in)), "E", direction)]
    /\ fe_pc' = "trace"
    /\ UNCHANGED <<msVars, lnVars, scVars, camVars, appVars>>

PureEvaluateE ==
    /\ fe_pc # "idle"
    /\ \E point \in PurePoints : CallE(point)

PureEvaluateB ==
    /\ fe_pc # "idle"
    /\ \E point \in PurePoints : CallB(point)

PureEvaluatePotential ==
    /\ fe_pc # "idle"
    /\ \E point \in PurePoints : CallPotential(point)

PureTrace ==
    /\ fe_pc # "idle"
    /\ \E start \in PurePoints : \E direction \in {1, -1} : CallTrace(start, direction)

\* _ensure_field_visuals of a dirty scene holding the sources
PureRegenerate ==
    /\ fe_pc # "idle"
    /\ fe_out.calls < MaxCalls
    /\ fe_in' = SourcesOf(ensure_field_visuals(SceneOf(fe_in)), fe_in.point)
    /\ fe_out' = [fe_out EXCEPT !.calls = @ + 1]
    /\ fe_pc' = "regeneration"
    /\ UNCHANGED <<msVars, lnVars, scVars, camVars, appVars>>

NextPure ==
    PureEvaluateE \/ PureEvaluateB \/ PureEvaluatePotential \/ PureTrace \/ PureRegenerate

SpecPure == InitPure /\ [][NextPure]_vars

----------------------------------------------------------------------------
(* Properties of the evaluators as functions (SpecPure)                     *)

Sources(in) == <<in.charges, in.line_charges, in.currents>>

----------------------------------------------------------------------------
(* Further properties of marching squares (SpecMS)                         *)

\* The cells (i, j) of the grid of an input, 1-based.
Cells(in) ==
    IF Len(in.xs) < 2 \/ Len(in.ys) < 2 THEN {}
    ELSE (1..(Len(in.xs) - 1)) \X (1..(Len(in.ys) - 1))

\* The 4-bit code of a cell for a level.
CodeOf(in, level, cell) ==
    CellIdx(in.values[cell[2]][cell[1]], in.values[cell[2]][cell[1] + 1],
            in.values[cell[2] + 1][cell[1] + 1], in.values[cell[2] + 1][cell[1]], level)

\* What one cell emits for one level.
Emitted(in, level, cell) == CellSegments(in.xs, in.ys, in.values, level, cell[1], cell[2])

\* The number of segments emitted for the first l levels.
RECURSIVE EmittedUpTo(_, _)
EmittedUpTo(in, l) ==
    IF l = 0 THEN 0
    ELSE EmittedUpTo(in, l - 1)
         + Cardinality({cell \in Cells(in) : Emitted(in, in.levels[l], cell) # <<>>})

\* The part of the output between the segments of the levels before l and after l.
LevelBlock(in, out, l) ==
    SubSeq(out, EmittedUpTo(in, l - 1) + 1, EmittedUpTo(in, l))

\* C14: the output of marching_squares is a flat list of segments of exactly two
\* points; each cell emits at most one segment per level; and the list is, level by
\* level in the order given, the segments the cells emitted for that level.
C14_FlatListOfTwoPointSegments ==
    ms_pc = "ms" =>
        /\ \A k \in 1..Len(ms_out.contours) :
              /\ Len(ms_out.contours[k]) = 2
              /\ \A e \in 1..2 : Len(ms_out.contours[k][e]) = 2
        /\ \A l \in 1..Len(ms_in.levels) : \A cell \in Cells(ms_in) :
              Len(Emitted(ms_in, ms_in.levels[l], cell)) <= 1
        /\ Len(ms_out.contours) = EmittedUpTo(ms_in, Len(ms_in.levels))
        /\ \A l \in 1..Len(ms_in.levels) :
              /\ \A k \in 1..Len(LevelBlock(ms_in, ms_out.contours, l)) :
                    \E cell \in Cells(ms_in) :
                        Emitted(ms_in, ms_in.levels[l], cell)
                            = <<LevelBlock(ms_in, ms_out.contours, l)[k]>>
              /\ \A cell \in Cells(ms_in) :
                    Emitted(ms_in, ms_in.levels[l], cell) # <<>> =>
                        \E k \in 1..Len(LevelBlock(ms_in, ms_out.contours, l)) :
                            Emitted(ms_in, ms_in.levels[l], cell)
                                = <<LevelBlock(ms_in, ms_out.contours, l)[k]>>

\* two levels each gave a segment, the first from a cell with three intersection points
C14_Witness ==
    /\ ms_pc = "ms"
    /\ Len(ms_in.levels) = 2
    /\ Len(ms_out.contours) = 2
    /\ \E cell \in Cells(ms_in) : CodeOf(ms_in, ms_in.levels[1], cell) = 7
    /\ Len(LevelBlock(ms_in, ms_out.contours, 1)) = 1
    /\ ms_out.contours[1] # ms_out.contours[2]

\* The four edges of a cell, each with the values at its two corners.
CellEdges(in, cell) ==
    LET x1 == in.xs[cell[1]]
        x2 == in.xs[cell[1] + 1]
        y1 == in.ys[cell[2]]
        y2 == in.ys[cell[2] + 1]
        v1 == in.values[cell[2]][cell[1]]
        v2 == in.values[cell[2]][cell[1] + 1]
        v3 == in.values[cell[2] + 1][cell[1] + 1]
        v4 == in.values[cell[2] + 1][cell[1]]
    IN  { [a |-> <<x1, y1>>, b |-> <<x2, y1>>, va |-> v1, vb |-> v2],
          [a |-> <<x2, y1>>, b |-> <<x2, y2>>, va |-> v2, vb |-> v3],
          [a |-> <<x2, y2>>, b |-> <<x1, y2>>, va |-> v3, vb |-> v4],
          [a |-> <<x1, y2>>, b |-> <<x1, y1>>, va |-> v4, vb |-> v1] }

\* One corner of the edge is above the level and the other is not.
Straddles(edge, level) == RGt(edge.va, level) # RGt(edge.vb, level)

\* p lies on the (axis-parallel) edge, its end points included.
OnEdge(p, edge) ==
    /\ RLe(RMin(edge.a[1], edge.b[1]), p[1]) /\ RLe(p[1], RMax(edge.a[1], edge.b[1]))
    /\ RLe(RMin(edge.a[2], edge.b[2]), p[2]) /\ RLe(p[2], RMax(edge.a[2], edge.b[2]))

\* C19: for every cell and level whose code is between 1 and 14, every endpoint of
\* the segment the cell emits lies on an edge of the cell whose two corner values
\* straddle the level.
C19_EndpointsOnCrossedEdges ==
    ms_pc = "ms" =>
        \A l \in 1..Len(ms_in.levels) : \A cell \in Cells(ms_in) :
            CodeOf(ms_in, ms_in.levels[l], cell) \in 1..14 =>
                \A k \in 1..Len(Emitted(ms_in, ms_in.levels[l], cell)) : \A e \in 1..2 :
                    \E edge \in CellEdges(ms_in, cell) :
                        /\ Straddles(edge, ms_in.levels[l])
                        /\ OnEdge(Emitted(ms_in, ms_in.levels[l], cell)[k][e], edge)

\* C20: a cell emits no segment for a level when its code is 0 or 15, and emits a
\* segment when its code is between 1 and 14.
C20_SegmentForEveryCrossedCell ==
    ms_pc = "ms" =>
        \A l \in 1..Len(ms_in.levels) : \A cell \in Cells(ms_in) :
            IF CodeOf(ms_in, ms_in.levels[l], cell) \in {0, 15}
            THEN Emitted(ms_in, ms_in.levels[l], cell) = <<>>
            ELSE Emitted(ms_in, ms_in.levels[l], cell) # <<>>

----------------------------------------------------------------------------
(* Camera2D on its own: zoom_at called on a camera object, several times   *)

MaxZooms == 3

CameraOffsets == {R(-120), Q(75, 2)}

\* zoom values of the dataclass field, which the constructor does not restrict:
\* the bounds themselves, values between them, zero and a negative zoom
CameraZooms == {MIN_ZOOM, Q(1, 2), R(1), R(100), MAX_ZOOM, Zero, R(-1)}

Cameras == {Camera(ox, R(40), z) : ox \in CameraOffsets, z \in CameraZooms}

FocusPoints == {Pt(R(400), R(300)), Pt(R(150), R(-30))}

\* the wheel factors of the scene, factors that drive the zoom past either bound,
\* and the factors the early return is for
ZoomFactors == {Q(11, 10), Q(10, 11), R(2), Q(1, 2), R(5000), Q(1, 5000), Zero, R(-2)}

NoZoomCall == [camera |-> <<>>, focus_x |-> Zero, focus_y |-> Zero, zoom_factor |-> Zero, calls |-> 0]

InitCamera ==
    /\ cam_out \in Cameras
    /\ cam_in = NoZoomCall
    /\ cam_pc = "input"
    /\ MSIdle
    /\ FEIdle
    /\ LNIdle
    /\ SCIdle
    /\ APPIdle

ZoomAtCall(focus, zoom_factor) ==
    /\ cam_in' = [camera |-> cam_out, focus_x |-> focus[1], focus_y |-> focus[2],
                  zoom_factor |-> zoom_factor, calls |-> cam_in.calls + 1]
    /\ cam_out' = zoom_at(cam_out, focus[1], focus[2], zoom_factor)
    /\ cam_pc' = "zoom_at"
    /\ UNCHANGED <<msVars, feVars, lnVars, scVars, appVars>>

CameraZoom ==
    /\ cam_pc \in {"input", "zoom_at"}
    /\ cam_in.calls < MaxZooms
    /\ \E focus \in FocusPoints : \E zoom_factor \in {f \in ZoomFactors : RGt(f, Zero)} :
           ZoomAtCall(focus, zoom_factor)

CameraZoomIgnored ==
    /\ cam_pc \in {"input", "zoom_at"}
    /\ cam_in.calls < MaxZooms
    /\ \E focus \in FocusPoints : \E zoom_factor \in {f \in ZoomFactors : RLe(f, Zero)} :
           ZoomAtCall(focus, zoom_factor)

NextCamera ==
    \/ CameraZoom
    \/ CameraZoomIgnored

SpecCamera == InitCamera /\ [][NextCamera]_vars

ZoomClamped(in, out) ==
    /\ RGt(in.zoom_factor, Zero)
    /\ out.zoom \in {MIN_ZOOM, MAX_ZOOM}
    /\ out.zoom # RMul(in.camera.zoom, in.zoom_factor)

\* C15: after zoom_at with a positive factor the world point that was under the
\* focus position maps back to the focus position, also when the zoom was clamped;
\* with a factor <= 0 the camera is unchanged.
C15_FocusStationary ==
    cam_pc = "zoom_at" =>
        IF RGt(cam_in.zoom_factor, Zero)
        THEN world_to_screen(cam_out,
                             screen_to_world(cam_in.camera, cam_in.focus_x, cam_in.focus_y)[1],
                             screen_to_world(cam_in.camera, cam_in.focus_x, cam_in.focus_y)[2])
                 = <<cam_in.focus_x, cam_in.focus_y>>
        ELSE cam_out = cam_in.camera

C15_Witness ==
    /\ cam_pc = "zoom_at"
    /\ ZoomClamped(cam_in, cam_out)
    /\ cam_in.focus_x # Zero
    /\ cam_out.offset_x # cam_in.camera.offset_x
    /\ cam_in.calls = MaxZooms

----------------------------------------------------------------------------
(* MainMenu: layout, handle_event, consume_start_request, reset            *)

column_spacing == 32

button_spacing == 18

button_height == 58

IMax(a, b) == IF a < b THEN b ELSE a

IMin(a, b) == IF b < a THEN b ELSE a

MenuButton(rect, group, value) == [rect |-> rect, group |-> group, value |-> value, is_selected |-> FALSE]

refresh_selections(menu) ==
    [menu EXCEPT
        !.dimension_buttons =
            [i \in DOMAIN menu.dimension_buttons |->
                [menu.dimension_buttons[i] EXCEPT
                    !.is_selected = (menu.dimension_buttons[i].value = menu.config.dimension)]],
        !.field_buttons =
            [i \in DOMAIN menu.field_buttons |->
                [menu.field_buttons[i] EXCEPT
                    !.is_selected = (menu.field_buttons[i].value = menu.config.field_type)]]]

build_buttons(menu) ==
    LET container == menu.container_rect
        column_width == (container.width - column_spacing * 3) \div 2
        left_column_x == container.left + column_spacing
        right_column_x == left_column_x + column_width + column_spacing
        buttons_top == container.top + 140
        ColumnRect(x, index) ==
            Rect(x, buttons_top + index * (button_height + button_spacing), column_width, button_height)
        validate_rect ==
            Rect((container.left + container.width \div 2) - column_width \div 2,
                 (container.top + container.height) - button_height - 36,
                 column_width, button_height)
    IN  refresh_selections(
            [menu EXCEPT
                !.dimension_buttons =
                    <<MenuButton(ColumnRect(left_column_x, 0), "dimension", "MODE_2D"),
                      MenuButton(ColumnRect(left_column_x, 1), "dimension", "MODE_3D")>>,
                !.field_buttons =
                    <<MenuButton(ColumnRect(right_column_x, 0), "field", "ELECTROSTATIC"),
                      MenuButton(ColumnRect(right_column_x, 1), "field", "MAGNETOSTATIC"),
                      MenuButton(ColumnRect(right_column_x, 2), "field", "COUPLED")>>,
                !.action_buttons = <<MenuButton(validate_rect, "validate", "None")>>])

rebuild_layout(menu, size) ==
    LET width == size[1]
        height == size[2]
        container_width == IMin(780, IMax(360, width - 120))
        container_height == IMin(480, IMax(320, height - 200))
        top_margin == IMax(60, (height - container_height) \div 2)
    IN  build_buttons([menu EXCEPT !.container_rect =
            Rect((width - container_width) \div 2, top_margin, container_width, container_height)])

\* MainMenu(screen, config) with a SimulationConfig() of default values
MainMenu(size) ==
    [rebuild_layout([container_rect |-> Rect(0, 0, 640, 420),
                     dimension_buttons |-> <<>>, field_buttons |-> <<>>, action_buttons |-> <<>>,
                     config |-> [dimension |-> "MODE_2D", field_type |-> "ELECTROSTATIC"],
                     start_requested |-> FALSE], size)
        EXCEPT !.start_requested = FALSE]

Hit(buttons, pos) == {i \in DOMAIN buttons : collidepoint(buttons[i].rect, pos)}

First(indices) == CHOOSE i \in indices : \A j \in indices : i <= j

\* the three loops of handle_event, each returning at its first hit
menu_handle_event(menu, event) ==
    IF event.type = "MOUSEBUTTONDOWN" /\ event.button = 1
    THEN IF Hit(menu.dimension_buttons, event.pos) # {}
         THEN refresh_selections([menu EXCEPT !.config.dimension =
                  menu.dimension_buttons[First(Hit(menu.dimension_buttons, event.pos))].value])
         ELSE IF Hit(menu.field_buttons, event.pos) # {}
         THEN refresh_selections([menu EXCEPT !.config.field_type =
                  menu.field_buttons[First(Hit(menu.field_buttons, event.pos))].value])
         ELSE IF \E i \in Hit(menu.action_buttons, event.pos) : menu.action_buttons[i].group = "validate"
         THEN [menu EXCEPT !.start_requested = TRUE]
         ELSE menu
    ELSE menu

\* the request is left pending
consume_start_request_peek(menu) == <<menu, menu.start_requested>>

\* <<the menu after the call, the value returned>>
consume_start_request(menu) ==
    IF menu.start_requested THEN <<[menu EXCEPT !.start_requested = FALSE], TRUE>>
    ELSE <<menu, FALSE>>

menu_reset(menu) == refresh_selections([menu EXCEPT !.start_requested = FALSE])

\* the event is a left click inside the rectangle of the validate button
ClicksValidate(menu, event) ==
    /\ event.type = "MOUSEBUTTONDOWN"
    /\ event.button = 1
    /\ \E i \in DOMAIN menu.action_buttons :
           /\ menu.action_buttons[i].group = "validate"
           /\ collidepoint(menu.action_buttons[i].rect, event.pos)

----------------------------------------------------------------------------
(* A MainMenu object driven by its three public methods, in any order      *)

MaxMenuCalls == 4

\* the window of main() and a smaller one
MenuScreenSizes == {ScreenSize, <<480, 400>>}

\* positions on each kind of button of either layout, where two buttons overlap, and on none
MenuPositions ==
    {<<150, 250>>, <<150, 330>>, <<600, 250>>, <<600, 400>>, <<400, 470>>, <<500, 447>>,
     <<240, 300>>, <<200, 300>>, <<10, 10>>}

MenuOtherEvents ==
    {[type |-> "MOUSEBUTTONDOWN", button |-> 3, pos |-> <<400, 470>>],
     [type |-> "KEYDOWN", button |-> 0, pos |-> <<0, 0>>],
     [type |-> "MOUSEMOTION", button |-> 0, pos |-> <<400, 470>>]}

InitMenu ==
    /\ \E size \in MenuScreenSizes :
           app = [menu |-> MainMenu(size), clicks |-> 0, consumed_clicks |-> 0,
                  returned |-> FALSE, calls |-> 0]
    /\ app_pc = "constructed"
    /\ MSIdle
    /\ FEIdle
    /\ LNIdle
    /\ SCIdle
    /\ CAMIdle

MenuHandle(event) ==
    /\ app' = [app EXCEPT !.menu = menu_handle_event(@, event),
                          !.clicks = IF ClicksValidate(app.menu, event) THEN @ + 1 ELSE @,
                          !.calls = @ + 1]
    /\ app_pc' = "handle_event"
    /\ UNCHANGED <<msVars, feVars, lnVars, scVars, camVars>>

MenuLeftClick ==
    /\ app.calls < MaxMenuCalls
    /\ \E pos \in MenuPositions : MenuHandle([type |-> "MOUSEBUTTONDOWN", button |-> 1, pos |-> pos])

MenuOtherEvent ==
    /\ app.calls < MaxMenuCalls
    /\ \E event \in MenuOtherEvents : MenuHandle(event)

MenuConsume ==
    /\ app.calls < MaxMenuCalls
    /\ app' = [app EXCEPT !.menu = consume_start_request(@)[1],
                          !.returned = consume_start_request(app.menu)[2],
                          !.consumed_clicks = app.clicks,
                          !.clicks = 0,
                          !.calls = @ + 1]
    /\ app_pc' = "consume_start_request"
    /\ UNCHANGED <<msVars, feVars, lnVars, scVars, camVars>>

MenuReset ==
    /\ app.calls < MaxMenuCalls
    /\ app' = [app EXCEPT !.menu = menu_reset(@), !.clicks = 0, !.calls = @ + 1]
    /\ app_pc' = "reset"
    /\ UNCHANGED <<msVars, feVars, lnVars, scVars, camVars>>

NextMenu ==
    \/ MenuLeftClick
    \/ MenuOtherEvent
    \/ MenuConsume
    \/ MenuReset

SpecMenu == InitMenu /\ [][NextMenu]_vars

\* C16: consume_start_request returns True exactly when the validate button was clicked
\* since the previous call or reset.
C16_ConsumeReturnsClicked ==
    app_pc = "consume_start_request" => (app.returned <=> app.consumed_clicks > 0)

\* what does hold of consume_start_request: it never returns True without a click on the
\* validate button since the previous call or reset, it leaves no request pending, and so a
\* second call in a row returns False; reset leaves no request pending either
ConsumeNeedsClick ==
    /\ app_pc = "consume_start_request" =>
           /\ app.returned => app.consumed_clicks > 0
           /\ ~app.menu.start_requested
    /\ app_pc = "reset" => ~app.menu.start_requested

SecondConsumeReturnsFalse ==
    [][(app_pc \in {"consume_start_request", "reset"} /\ app_pc' = "consume_start_request")
           => (app'.returned = FALSE)]_vars

SeveralClicksOneRequest ==
    /\ app_pc = "consume_start_request"
    /\ app.consumed_clicks >= 2
    /\ app.returned

----------------------------------------------------------------------------
(* main(): the menu loop, run_simulation and BaseScene.run                 *)

MaxAppEvents == 5

SceneOtherEvents ==
    {[type |-> "KEYDOWN", key |-> "K_l"],
     [type |-> "MOUSEBUTTONDOWN", key |-> "None"],
     [type |-> "VIDEORESIZE", key |-> "None"]}

InitApp ==
    /\ app = [running |-> TRUE, menu |-> MainMenu(ScreenSize), scene |-> [running |-> FALSE],
              continue_running |-> TRUE, quit_handled |-> FALSE, esc_handled |-> FALSE,
              clicks |-> 0, starts |-> 0, events |-> 0]
    /\ app_pc = "menu_events"
    /\ MSIdle
    /\ FEIdle
    /\ LNIdle
    /\ SCIdle
    /\ CAMIdle

\* if event.type == pygame.QUIT: running = False; break -- then `if not running: break`
AppMenuQuit ==
    /\ app_pc = "menu_events"
    /\ app' = [app EXCEPT !.running = FALSE]
    /\ app_pc' = "done"
    /\ UNCHANGED <<msVars, feVars, lnVars, scVars, camVars>>

AppMenuHandle(event) ==
    /\ app' = [app EXCEPT !.menu = menu_handle_event(@, event),
                          !.clicks = IF ClicksValidate(app.menu, event) THEN @ + 1 ELSE @,
                          !.events = @ + 1]
    /\ app_pc' = "menu_events"
    /\ UNCHANGED <<msVars, feVars, lnVars, scVars, camVars>>

AppMenuLeftClick ==
    /\ app_pc = "menu_events"
    /\ app.events < MaxAppEvents
    /\ \E pos \in MenuPositions :
           AppMenuHandle([type |-> "MOUSEBUTTONDOWN", button |-> 1, pos |-> pos])

AppMenuOtherEvent ==
    /\ app_pc = "menu_events"
    /\ app.events < MaxAppEvents
    /\ \E event \in MenuOtherEvents : AppMenuHandle(event)

\* the events of the frame are handled: draw, flip, tick, then consume_start_request and,
\* when it returns True, run_simulation up to the first test of `while self.running`
AppMenuFrame ==
    /\ app_pc = "menu_events"
    /\ app' = IF consume_start_request(app.menu)[2]
              THEN [app EXCEPT !.menu = consume_start_request(@)[1],
                               !.scene = [running |-> TRUE],
                               !.quit_handled = FALSE,
                               !.esc_handled = FALSE,
                               !.starts = @ + 1]
              ELSE [app EXCEPT !.menu = consume_start_request(@)[1], !.clicks = 0]
    /\ app_pc' = IF consume_start_request(app.menu)[2] THEN "scene_events" ELSE "menu_events"
    /\ UNCHANGED <<msVars, feVars, lnVars, scVars, camVars>>

\* one iteration of `for event in pygame.event.get()` of BaseScene.run
AppSceneHandle(event) ==
    /\ app' = [app EXCEPT !.scene = base_handle_event(@, event),
                          !.continue_running = IF should_continue(event) THEN @ ELSE FALSE,
                          !.quit_handled = @ \/ event.type = "QUIT",
                          !.esc_handled = @ \/ (event.type = "KEYDOWN" /\ event.key = "K_ESCAPE"),
                          !.events = @ + 1]
    /\ app_pc' = IF should_continue(event) THEN "scene_events" ELSE "run_returned"
    /\ UNCHANGED <<msVars, feVars, lnVars, scVars, camVars>>

AppSceneQuit ==
    /\ app_pc = "scene_events"
    /\ app.events < MaxAppEvents
    /\ AppSceneHandle([type |-> "QUIT", key |-> "None"])

AppSceneEscape ==
    /\ app_pc = "scene_events"
    /\ app.events < MaxAppEvents
    /\ AppSceneHandle([type |-> "KEYDOWN", key |-> "K_ESCAPE"])

AppSceneOtherEvent ==
    /\ app_pc = "scene_events"
    /\ app.events < MaxAppEvents
    /\ \E event \in SceneOtherEvents : AppSceneHandle(event)

\* update, draw, flip, tick, then `while self.running`: the loop goes on or run returns True
AppSceneFrame ==
    /\ app_pc = "scene_events"
    /\ app' = IF app.scene.running THEN app ELSE [app EXCEPT !.continue_running = TRUE]
    /\ app_pc' = IF app.scene.running THEN "scene_events" ELSE "run_returned"
    /\ UNCHANGED <<msVars, feVars, lnVars, scVars, camVars>>

\* if not continue_running: running = False / else: menu.reset()
AppAfterRun ==
    /\ app_pc = "run_returned"
    /\ app' = IF ~app.continue_running THEN [app EXCEPT !.running = FALSE]
              ELSE [app EXCEPT !.menu = menu_reset(@), !.clicks = 0]
    /\ app_pc' = IF ~app.continue_running THEN "done" ELSE "menu_events"
    /\ UNCHANGED <<msVars, feVars, lnVars, scVars, camVars>>

NextApp ==
    \/ AppMenuQuit
    \/ AppMenuLeftClick
    \/ AppMenuOtherEvent
    \/ AppMenuFrame
    \/ AppSceneQuit
    \/ AppSceneEscape
    \/ AppSceneOtherEvent
    \/ AppSceneFrame
    \/ AppAfterRun

SpecApp == InitApp /\ [][NextApp]_vars

RunResult ==
    /\ app_pc = "run_returned" =>
           /\ ~app.continue_running <=> app.quit_handled
           /\ app.continue_running => app.esc_handled /\ ~app.scene.running
    /\ app_pc = "scene_events" => ~app.quit_handled

MainAfterRun ==
    app_pc = "run_returned" =>
        IF ~app.continue_running
        THEN app_pc' = "done" /\ ~app'.running
        ELSE app_pc' = "menu_events" /\ app'.running /\ ~app'.menu.start_requested

StartNeedsClick ==
    (app_pc = "menu_events" /\ app_pc' = "scene_events") => app.clicks > 0

\* C17: BaseScene.run returns False exactly when a QUIT event was handled and True when
\* the scene was ended by ESC; main() ends its loop on False, and on True returns to the
\* menu with no start request pending, so that every start follows a click on the validate
\* button made since the menu was last asked.
C17_RunResultDrivesMain ==
    /\ []RunResult
    /\ [][MainAfterRun /\ StartNeedsClick]_vars

C17_Witness ==
    /\ app_pc = "run_returned"
    /\ app.starts = 2
    /\ ~app.continue_running
    /\ app.esc_handled

----------------------------------------------------------------------------
(* Scene2D._sample_field_vectors, one grid point per step                  *)

\* math.floor of a rational
Floor(a) == a[1] \div a[2]

\* a floor that admits a magnitude equal to it
ExceedsFloor_or_equals(magnitude) == RGe(magnitude, Q(1, 100000))

\* magnitude > 1e-5
ExceedsFloor(magnitude) == RGt(magnitude, Q(1, 100000))

\* one charge at the origin: strong, weak, negative, and of the magnitude that gives a
\* field of exactly 1e-5 at distance 24; or no charge and a wire without current
SampleCharges == {<<PointCharge(R(0), R(0), q)>> : q \in {R(1), Q(1, 500), Q(-1, 500), Q(576, 100000), Q(1, 1000)}}

SampleScenes ==
    {[charges |-> cs, line_charges |-> <<>>, currents |-> <<>>,
      camera |-> Camera(R(0), R(0), z), vector_field_skip |-> k] :
        cs \in SampleCharges, z \in {R(10), R(5)}, k \in {1, 2}}
    \cup {[charges |-> <<>>, line_charges |-> <<>>,
           currents |-> <<CurrentWire(R(0), R(6), R(24), R(6), Zero)>>,
           camera |-> Camera(R(0), R(0), R(10)), vector_field_skip |-> 1]}

SampleBounds == {<<R(0), R(0), R(24), R(12)>>, <<R(-5), R(-5), R(13), R(30)>>}

SampleInputs ==
    {[scene |-> s, bounds |-> b, field_kind |-> IF s.charges = <<>> THEN "B" ELSE "E"] :
        s \in SampleScenes, b \in SampleBounds}

NoSamples == [samples |-> <<>>, max_magnitude |-> Zero, x |-> Zero, y |-> Zero]

SampleStart(in, k) == RMul(R(Floor(RDiv(in.bounds[k], vector_field_spacing_world(in.scene)))),
                           vector_field_spacing_world(in.scene))

\* the body of the inner loop at (x, y)
Recorded(in, out, vec, magnitude) ==
    IF ExceedsFloor(magnitude)
    THEN [out EXCEPT !.samples = Append(@, [pos |-> <<out.x, out.y>>, vec |-> vec,
                                            magnitude |-> magnitude]),
                     !.max_magnitude = IF RGt(magnitude, @) THEN magnitude ELSE @,
                     !.y = RAdd(@, vector_field_spacing_world(in.scene))]
    ELSE [out EXCEPT !.y = RAdd(@, vector_field_spacing_world(in.scene))]

InitSample ==
    /\ fe_in \in SampleInputs
    /\ fe_out = NoSamples
    /\ fe_pc = "input"
    /\ MSIdle
    /\ LNIdle
    /\ SCIdle
    /\ CAMIdle
    /\ APPIdle

SampleCall ==
    /\ fe_pc = "input"
    /\ fe_out' = IF RLe(vector_field_spacing_world(fe_in.scene), Zero) THEN NoSamples
                 ELSE [NoSamples EXCEPT !.x = SampleStart(fe_in, 1)]
    /\ fe_pc' = IF RLe(vector_field_spacing_world(fe_in.scene), Zero) THEN "returned" ELSE "outer"
    /\ UNCHANGED <<fe_in, msVars, lnVars, scVars, camVars, appVars>>

\* while x <= x_max: y = start_y
SampleColumn ==
    /\ fe_pc = "outer"
    /\ RLe(fe_out.x, fe_in.bounds[3])
    /\ fe_out' = [fe_out EXCEPT !.y = SampleStart(fe_in, 2)]
    /\ fe_pc' = "inner"
    /\ UNCHANGED <<fe_in, msVars, lnVars, scVars, camVars, appVars>>

SampleReturn ==
    /\ fe_pc = "outer"
    /\ ~RLe(fe_out.x, fe_in.bounds[3])
    /\ fe_pc' = "returned"
    /\ UNCHANGED <<fe_in, fe_out, msVars, lnVars, scVars, camVars, appVars>>

\* while y <= y_max: evaluate, record, y += spacing
SamplePoint ==
    /\ fe_pc = "inner"
    /\ RLe(fe_out.y, fe_in.bounds[4])
    /\ fe_out' = Recorded(fe_in, fe_out,
                          field_func(fe_in.scene, fe_in.field_kind, <<fe_out.x, fe_out.y>>),
                          compute_field_magnitude(
                              field_func(fe_in.scene, fe_in.field_kind, <<fe_out.x, fe_out.y>>)))
    /\ fe_pc' = "inner"
    /\ UNCHANGED <<fe_in, msVars, lnVars, scVars, camVars, appVars>>

\* the inner loop is over: x += spacing
SampleColumnEnd ==
    /\ fe_pc = "inner"
    /\ ~RLe(fe_out.y, fe_in.bounds[4])
    /\ fe_out' = [fe_out EXCEPT !.x = RAdd(@, vector_field_spacing_world(fe_in.scene))]
    /\ fe_pc' = "outer"
    /\ UNCHANGED <<fe_in, msVars, lnVars, scVars, camVars, appVars>>

NextSample ==
    \/ SampleCall
    \/ SampleColumn
    \/ SampleReturn
    \/ SamplePoint
    \/ SampleColumnEnd

SpecSample == InitSample /\ [][NextSample]_vars

\* the points of the regular grid over the bounds
GridPoints(in) ==
    {<<RAdd(SampleStart(in, 1), RMul(R(i), vector_field_spacing_world(in.scene))),
       RAdd(SampleStart(in, 2), RMul(R(j), vector_field_spacing_world(in.scene)))>> :
        i \in 0..4, j \in 0..4} \cap
    {p \in {<<RAdd(SampleStart(in, 1), RMul(R(i), vector_field_spacing_world(in.scene))),
              RAdd(SampleStart(in, 2), RMul(R(j), vector_field_spacing_world(in.scene)))>> :
               i \in 0..4, j \in 0..4} :
        RLe(p[1], in.bounds[3]) /\ RLe(p[2], in.bounds[4])}

MagnitudeAt(in, p) == compute_field_magnitude(field_func(in.scene, in.field_kind, p))

RecordedAt(out) == {out.samples[n].pos : n \in 1..Len(out.samples)}

\* C23: a grid point is recorded if and only if its field magnitude exceeds 1e-5; the
\* returned maximum is the largest recorded magnitude, 0 when nothing is recorded; so every
\* recorded magnitude lies in (1e-5, max_magnitude].
C23_RecordedIffAboveFloor ==
    fe_pc = "returned" =>
        /\ RecordedAt(fe_out) = {p \in GridPoints(fe_in) : RGt(MagnitudeAt(fe_in, p), Q(1, 100000))}
        /\ Len(fe_out.samples) = Cardinality(RecordedAt(fe_out))
        /\ \A n \in 1..Len(fe_out.samples) :
               /\ fe_out.samples[n].magnitude = MagnitudeAt(fe_in, fe_out.samples[n].pos)
               /\ RGt(fe_out.samples[n].magnitude, Q(1, 100000))
               /\ RLe(fe_out.samples[n].magnitude, fe_out.max_magnitude)
        /\ IF fe_out.samples = <<>> THEN fe_out.max_magnitude = Zero
           ELSE \E n \in 1..Len(fe_out.samples) : fe_out.samples[n].magnitude = fe_out.max_magnitude

\* a sampling that records some points and leaves out others, one of them with a field of
\* exactly 1e-5
C23_Witness ==
    /\ fe_pc = "returned"
    /\ Len(fe_out.samples) >= 2
    /\ \E p \in GridPoints(fe_in) : MagnitudeAt(fe_in, p) = Q(1, 100000)
    /\ \E p \in GridPoints(fe_in) : p \notin RecordedAt(fe_out) /\ MagnitudeAt(fe_in, p) # Zero
    /\ \E n \in 1..Len(fe_out.samples) : RLt(fe_out.samples[n].magnitude, fe_out.max_magnitude)

----------------------------------------------------------------------------
(* The scene machine during a left-button drag, started from a scene that  *)
(* holds an object and its duplicate                                       *)

LeftDown(pos) == [type |-> "MOUSEBUTTONDOWN", button |-> 1, pos |-> pos]

LeftUp(pos) == [type |-> "MOUSEBUTTONUP", button |-> 1, pos |-> pos]

\* the scene after the events of the list, from event k on
RECURSIVE HandledFrom(_, _, _)
HandledFrom(s, events, k) ==
    IF k > Len(events) THEN s ELSE HandledFrom(handle_event(s, events[k]), events, k + 1)

\* a click at (100, 100), a click at (112, 100), then Ctrl+D: with the point tool a charge
\* and its duplicate 40 above, with the wire tool a wire and its duplicate
PopulatedScene(field_type) ==
    HandledFrom(Scene2D(field_type),
                <<LeftDown(<<100, 100>>), LeftUp(<<100, 100>>),
                  LeftDown(<<112, 100>>), LeftUp(<<112, 100>>), Key("K_d", "", TRUE)>>, 1)

InitDrag ==
    /\ \E field_type \in FieldTypes : self = PopulatedScene(field_type)
    /\ run_pc = "events"
    /\ hist = [events |-> 0, last_draw |-> "none", regenerated_from |-> None, replaced |-> {}]
    /\ MSIdle
    /\ FEIdle
    /\ LNIdle
    /\ CAMIdle
    /\ APPIdle

DragButtonDown ==
    /\ run_pc = "events"
    /\ ~self.left_click_active
    /\ \E pos \in WorkspacePixels : Handle(LeftDown(pos))

DragMotion ==
    /\ run_pc = "events"
    /\ self.left_click_active
    /\ \E event \in MouseMotionEvents : Handle(event)

DragDelete ==
    /\ run_pc = "events"
    /\ self.left_click_active
    /\ Handle(Key("K_DELETE", "", FALSE))

DragDuplicate ==
    /\ run_pc = "events"
    /\ self.left_click_active
    /\ Handle(Key("K_d", "", TRUE))

DragButtonUp ==
    /\ run_pc = "events"
    /\ self.left_click_active
    /\ \E pos \in WorkspacePixels : Handle(LeftUp(pos))

NextDrag ==
    \/ DragButtonDown
    \/ DragMotion
    \/ DragDelete
    \/ DragDuplicate
    \/ DragButtonUp

SpecDrag == InitDrag /\ [][NextDrag]_vars

ObjectsOf(s, kind) ==
    IF kind = "charge" THEN s.charges ELSE IF kind = "line" THEN s.line_charges ELSE s.currents

\* object i (from 1) of the list is the drag candidate, and it is the object captured at
\* mouse-down: the mouse moves along x only, so that object keeps the ordinate captured
IsGrabbed(s, kind, i) ==
    /\ s.drag_candidate = <<kind, i - 1>>
    /\ s.drag_initial_object_state # None
    /\ CapturedState(kind, ObjectsOf(s, kind)[i])[2] = s.drag_initial_object_state[2]

\* C24: while the left button is held, only the object that was under the cursor at
\* mouse-down is translated; after it is deleted, motion moves nothing.
C24_OnlyGrabbedObjectMoves ==
    [][(self.left_click_active /\ self'.left_click_active) =>
          \A kind \in {"charge", "line", "current"} :
              Len(ObjectsOf(self', kind)) = Len(ObjectsOf(self, kind)) =>
                  \A i \in 1..Len(ObjectsOf(self, kind)) :
                      ObjectsOf(self', kind)[i] # ObjectsOf(self, kind)[i] =>
                          IsGrabbed(self, kind, i)]_vars

\* a drag that moved the grabbed object and nothing else
DraggedGrabbedObject ==
    /\ self.left_click_active
    /\ self.is_dragging_object
    /\ Len(self.charges) + Len(self.currents) = 2
    /\ \E kind \in {"charge", "current"} :
           /\ self.drag_candidate # None
           /\ self.drag_candidate[1] = kind
           /\ IsGrabbed(self, kind, self.drag_candidate[2] + 1)
           /\ CapturedState(kind, ObjectsOf(self, kind)[self.drag_candidate[2] + 1])
                  # self.drag_initial_object_state

----------------------------------------------------------------------------
(* Further properties of the scene machine: selection, placement, toggles. *)

SelectionInBounds(s) ==
    \/ s.selected_object = None
    \/ /\ s.selected_object[1] \in {"charge", "line", "current"}
       /\ 0 <= s.selected_object[2]
       /\ s.selected_object[2] < Len(ObjectsOf(s, s.selected_object[1]))

\* the lists of the scene whose length grew, or shrank, in the step
Grown(s, t) == {kind \in {"charge", "line", "current"} : Len(ObjectsOf(t, kind)) > Len(ObjectsOf(s, kind))}

Shrunk(s, t) == {kind \in {"charge", "line", "current"} : Len(ObjectsOf(t, kind)) < Len(ObjectsOf(s, kind))}

SelectionFollows(s, t) ==
    /\ Shrunk(s, t) # {} => t.selected_object = None
    /\ \A kind \in Grown(s, t) :
           /\ Len(ObjectsOf(t, kind)) = Len(ObjectsOf(s, kind)) + 1
           /\ t.selected_object = <<kind, Len(ObjectsOf(t, kind)) - 1>>

\* C25: after every handled event selected_object is None or a (kind, index) pair with the
\* index inside the list of its kind; a deletion leaves no selection and a creation or
\* duplication selects the object just appended.
C25_SelectionInBounds ==
    /\ [](run_pc # "idle" => SelectionInBounds(self))
    /\ [][SelectionFollows(self, self')]_vars

\* placed (button down and up), duplicated, one of the two deleted: one object remains
\* and nothing is selected
C25_Witness ==
    /\ run_pc = "events"
    /\ self.selected_object = None
    /\ self.field_dirty
    /\ Len(self.charges) + Len(self.currents) = 1
    /\ self.pending_start = None
    /\ hist.events = 4
    /\ ~self.left_click_active

Last(seq) == seq[Len(seq)]

\* the step completes a segment of the kind: a void click released at a workspace pixel
\* while pending_start holds a start point recorded under the selected type
PlacedSegment(s, t, kind) ==
    /\ s.pending_start # None
    /\ s.pending_start[1] = s.selected_type
    /\ s.selected_type = kind
    /\ s.left_click_active
    /\ s.drag_candidate = None
    /\ ~s.left_click_suppressed
    /\ \E pos \in WorkspacePixels :
           /\ t = handle_event(s, LeftUp(pos))
           /\ Last(ObjectsOf(t, kind)).x1 = s.pending_start[2][1]
           /\ Last(ObjectsOf(t, kind)).y1 = s.pending_start[2][2]
           /\ Last(ObjectsOf(t, kind)).x2 = LocalWorld(s, pos)[1]
           /\ Last(ObjectsOf(t, kind)).y2 = LocalWorld(s, pos)[2]
    /\ t.pending_start = None

\* the step appends the copy of the selected object of the kind
AppendedDuplicate(s, t, kind) ==
    /\ s.selected_object # None
    /\ s.selected_object[1] = kind
    /\ get_object(s, kind, s.selected_object[2]) # None
    /\ Last(ObjectsOf(t, kind)) = DuplicateOf(kind, get_object(s, kind, s.selected_object[2])[1])

StartDroppedByToolChange ==
    /\ self.field_type = "ELECTROSTATIC"
    /\ self.selected_type = "point"
    /\ self.pending_start = None
    /\ self.drag_start_world # None
    /\ self.line_charges = <<>>
    /\ self.charges = <<>>
    /\ hist.events = 4

----------------------------------------------------------------------------
(* Camera2D from the default camera: zoom_at called several times, and the *)
(* loops of Scene2D._determine_grid_spacing on the zoom it leaves          *)

MaxGridLoop == 16

\* while spacing * zoom < min_spacing_px: spacing *= 2.0
RECURSIVE GridSpacingUp(_, _, _)
GridSpacingUp(spacing, zoom, left) ==
    IF ~RLt(RMul(spacing, zoom), R(50)) THEN spacing
    ELSE IF left = 0 THEN None
    ELSE GridSpacingUp(RMul(spacing, R(2)), zoom, left - 1)

\* while spacing * zoom > min_spacing_px * 4 and spacing > 1.0: spacing /= 2.0
RECURSIVE GridSpacingDown(_, _, _)
GridSpacingDown(spacing, zoom, left) ==
    IF spacing = None THEN None
    ELSE IF ~(RGt(RMul(spacing, zoom), R(200)) /\ RGt(spacing, R(1))) THEN spacing
    ELSE IF left = 0 THEN None
    ELSE GridSpacingDown(RDiv(spacing, R(2)), zoom, left - 1)

\* None when a loop has not ended after MaxGridLoop iterations
determine_grid_spacing(zoom) ==
    GridSpacingDown(GridSpacingUp(R(1), zoom, MaxGridLoop), zoom, MaxGridLoop)

InitZoom ==
    /\ cam_out = Camera(Zero, Zero, R(1))
    /\ cam_in = NoZoomCall
    /\ cam_pc = "input"
    /\ MSIdle
    /\ FEIdle
    /\ LNIdle
    /\ SCIdle
    /\ APPIdle

SpecZoom == InitZoom /\ [][NextCamera]_vars

\* C27: from the default camera, after any sequence of zoom_at calls the zoom is within
\* [MIN_ZOOM, MAX_ZOOM] and is not zero, so the divisions by zoom are defined and the
\* grid-spacing loops end, with a spacing of at least 50 pixels.
C27_ZoomWithinBounds ==
    cam_pc \in {"input", "zoom_at"} =>
        /\ RGe(cam_out.zoom, MIN_ZOOM)
        /\ RLe(cam_out.zoom, MAX_ZOOM)
        /\ cam_out.zoom # Zero
        /\ RMul(RDiv(R(200), cam_out.zoom), cam_out.zoom) = R(200)
        /\ determine_grid_spacing(cam_out.zoom) # None
        /\ RGe(RMul(determine_grid_spacing(cam_out.zoom), cam_out.zoom), R(50))

\* three calls from the default camera: the zoom was clamped at one bound, then moved
\* strictly inside the range again
C27_Witness ==
    /\ cam_pc = "zoom_at"
    /\ cam_in.calls = 3
    /\ cam_in.camera.zoom \in {MIN_ZOOM, MAX_ZOOM}
    /\ RGt(cam_in.zoom_factor, Zero)
    /\ RGt(cam_out.zoom, MIN_ZOOM)
    /\ RLt(cam_out.zoom, MAX_ZOOM)
    /\ determine_grid_spacing(cam_out.zoom) # R(1)

----------------------------------------------------------------------------
(* The scene machine under the '[' and ']' keys and the frame's draw,      *)
(* started from a scene whose density was already changed some times       *)

\* '[' pressed k times
RECURSIVE CoarserPressed(_, _)
CoarserPressed(s, k) ==
    IF k = 0 THEN s
    ELSE CoarserPressed(handle_event(s, Key("K_LEFTBRACKET", "[", FALSE)), k - 1)

InitDensity ==
    /\ \E field_type \in FieldTypes : \E k \in 0..5 : self = CoarserPressed(Scene2D(field_type), k)
    /\ run_pc = "events"
    /\ hist = [events |-> 0, last_draw |-> "none", regenerated_from |-> None, replaced |-> {}]
    /\ MSIdle
    /\ FEIdle
    /\ LNIdle
    /\ CAMIdle
    /\ APPIdle

DensityCoarser ==
    /\ run_pc = "events"
    /\ Handle(Key("K_LEFTBRACKET", "[", FALSE))

DensityFiner ==
    /\ run_pc = "events"
    /\ Handle(Key("K_RIGHTBRACKET", "]", FALSE))

DensityDraw ==
    /\ run_pc = "events"
    /\ Draw

NextDensity ==
    \/ DensityCoarser
    \/ DensityFiner
    \/ DensityDraw

SpecDensity == InitDensity /\ [][NextDensity]_vars

\* C28: vector_field_skip stays in 1..6; a press of '[' at 6 or of ']' at 1 changes
\* nothing and leaves field_dirty as it was, and a press that changes the value moves it
\* by one and raises field_dirty.
C28_VectorSkipInRange ==
    /\ [](run_pc # "idle" => self.vector_field_skip \in 1..6)
    /\ [][/\ DensityCoarser =>
                 IF self.vector_field_skip = 6 THEN self' = self
                 ELSE /\ self'.vector_field_skip = self.vector_field_skip + 1
                      /\ self'.field_dirty
          /\ DensityFiner =>
                 IF self.vector_field_skip = 1 THEN self' = self
                 ELSE /\ self'.vector_field_skip = self.vector_field_skip - 1
                      /\ self'.field_dirty]_vars

\* the coarsest density reached by a press and drawn: the next '[' would leave the range
C28_Witness ==
    /\ run_pc = "events"
    /\ self.vector_field_skip = 6
    /\ ~self.field_dirty
    /\ hist.events = 1
    /\ hist.last_draw = "regenerated"
    /\ hist.regenerated_from = <<RegenerationInputs(self)>>

----------------------------------------------------------------------------
(* The field-line display mode of the scene machine (Spec)                 *)

ToggleKey == Key("K_l", "l", FALSE)

\* the order none -> E -> B -> both -> none
Following(mode) ==
    IF mode = "none" THEN "E" ELSE IF mode = "E" THEN "B" ELSE IF mode = "B" THEN "both" ELSE "none"

\* the panel button can be clicked: a draw has laid it out inside the panel, and none of
\* the rows that _handle_panel_click tests before it, at their present places, takes
\* the click
ToggleButtonShown(s) ==
    /\ s.field_toggle_rect.width > 0
    /\ collidepoint(s.panel_rect, PixelIn(s.field_toggle_rect))
    /\ ClickedOptions(s, PixelIn(s.field_toggle_rect)) = {}
    /\ ~collidepoint(InputRect(s), PixelIn(s.field_toggle_rect))
    /\ s.selected_object # None =>
           /\ ~collidepoint(SelectedRect(s), PixelIn(s.field_toggle_rect))
           /\ ~collidepoint(DuplicateRect(s), PixelIn(s.field_toggle_rect))
           /\ ~collidepoint(DeleteRect(s), PixelIn(s.field_toggle_rect))

\* the toggles the scene accepts in the state: the L key while no input box is active,
\* and a left click on the panel button
Toggled(s) ==
    (IF s.input_active \/ s.selected_input_active THEN {} ELSE {handle_event(s, ToggleKey)})
        \cup (IF ToggleButtonShown(s) THEN {handle_event(s, LeftDown(PixelIn(s.field_toggle_rect)))}
              ELSE {})

\* C29: the mode is one of none, E, B, both; every toggle, by the L key or by the panel
\* button, moves it one place in the order none -> E -> B -> both -> none and raises
\* field_dirty; nothing else changes it; four toggles in a row restore it.
C29_FieldLineModeCycle ==
    /\ [](run_pc # "idle" =>
             /\ self.show_field_lines_mode \in {"none", "E", "B", "both"}
             /\ \A t1 \in Toggled(self) :
                    /\ t1.show_field_lines_mode = Following(self.show_field_lines_mode)
                    /\ t1.field_dirty
                    /\ \A t2 \in Toggled(t1) : \A t3 \in Toggled(t2) : \A t4 \in Toggled(t3) :
                           t4.show_field_lines_mode = self.show_field_lines_mode)
    /\ [][self'.show_field_lines_mode # self.show_field_lines_mode =>
              /\ self' \in Toggled(self)
              /\ self'.show_field_lines_mode = Following(self.show_field_lines_mode)
              /\ self'.field_dirty]_vars

\* three toggles from the initial mode, the panel button drawn before the last of them
C29_Witness ==
    /\ run_pc = "events"
    /\ self.show_field_lines_mode = "both"
    /\ self.field_dirty
    /\ hist.events = 3
    /\ ToggleButtonShown(self)
    /\ Toggled(self) # {}

====
